---- MODULE Spec2Model ----
(***************************************************************************)
(* The LLM-response recovery pipelines of resume-helper: the job analyzer, *)
(* the resume parser, the resume/job matcher and the recommendation        *)
(* generator.  Text is a sequence of one-character strings; indices in the *)
(* string helpers are Python's (0-based), find returns -1 when absent.     *)
(* The character "@" stands for the member list of a JSON object, whose    *)
(* content travels beside the text as a function from keys to JSON values. *)
(***************************************************************************)
EXTENDS Integers, Sequences, FiniteSets, TLC

\* ------------------------------------------------------------------------
\* Bounds of the model
\* ------------------------------------------------------------------------
MaxListLen == 2

\* ------------------------------------------------------------------------
\* Python string operations on character sequences
\* ------------------------------------------------------------------------
Min(a, b) == IF a < b THEN a ELSE b

Whitespace == {" ", "\n"}

\* s[a:b] for 0 <= a
Slice(s, a, b) == SubSeq(s, a + 1, Min(b, Len(s)))

\* s[a:]
SliceFrom(s, a) == SubSeq(s, a + 1, Len(s))

\* s.startswith(sub, i)
MatchAt(s, sub, i) ==
    /\ i >= 0
    /\ i + Len(sub) <= Len(s)
    /\ \A k \in 1..Len(sub) : s[i + k] = sub[k]

\* s.find(sub, start)
FindFrom(s, sub, start) ==
    LET hits == {i \in start..(Len(s) - Len(sub)) : MatchAt(s, sub, i)}
    IN  IF hits = {} THEN -1 ELSE CHOOSE i \in hits : \A j \in hits : i <= j

\* s.find(sub)
Find(s, sub) == FindFrom(s, sub, 0)

\* s.rfind(sub)
RFind(s, sub) ==
    LET hits == {i \in 0..(Len(s) - Len(sub)) : MatchAt(s, sub, i)}
    IN  IF hits = {} THEN -1 ELSE CHOOSE i \in hits : \A j \in hits : i >= j

\* sub in s
Contains(s, sub) == Find(s, sub) >= 0

StartsWith(s, sub) == MatchAt(s, sub, 0)

EndsWith(s, sub) == MatchAt(s, sub, Len(s) - Len(sub))

\* s.strip(chars)
StripChars(s, chars) ==
    IF \A i \in 1..Len(s) : s[i] \in chars THEN << >>
    ELSE SubSeq(s,
                CHOOSE i \in 1..Len(s) :
                    s[i] \notin chars /\ \A j \in 1..(i - 1) : s[j] \in chars,
                CHOOSE i \in 1..Len(s) :
                    s[i] \notin chars /\ \A j \in (i + 1)..Len(s) : s[j] \in chars)

\* s.strip()
Strip(s) == StripChars(s, Whitespace)

\* s.split(sep)[1], defined when sep occurs in s
SplitSecond(s, sep) ==
    LET rest == SliceFrom(s, Find(s, sep) + Len(sep))
        nxt  == Find(rest, sep)
    IN  IF nxt < 0 THEN rest ELSE Slice(rest, 0, nxt)

\* s.split(sep)[0]
SplitFirst(s, sep) ==
    LET nxt == Find(s, sep)
    IN  IF nxt < 0 THEN s ELSE Slice(s, 0, nxt)

\* ------------------------------------------------------------------------
\* Markers the cleaners look for (the backquote character is written
\* "BACKTICK")
\* ------------------------------------------------------------------------
ThinkOpen == <<"<", "t", "h", "i", "n", "k", ">">>

ThinkClose == <<"<", "/", "t", "h", "i", "n", "k", ">">>

Backtick == "BACKTICK"

Fence == <<Backtick, Backtick, Backtick>>

FenceJson == Fence \o <<"j", "s", "o", "n">>

LBrace == <<"{">>

RBrace == <<"}">>

\* ------------------------------------------------------------------------
\* JSON values.  A value is [t, l]: t is the JSON type, l the items of a
\* list or the single item of a scalar.  An item is [k, s, pr]: a string, a
\* number, or an object whose "priority" key holds pr (NoPriority: no key).
\* ------------------------------------------------------------------------
NoPriority == -1

Str(s) == [k |-> "str", s |-> s, pr |-> NoPriority]

Num(s) == [k |-> "num", s |-> s, pr |-> NoPriority]

Rec(s, pr) == [k |-> "obj", s |-> s, pr |-> pr]

JList(items) == [t |-> "list", l |-> items]

JStr(s) == [t |-> "str", l |-> <<Str(s)>>]

JNum(s) == [t |-> "num", l |-> <<Num(s)>>]

JObj == [t |-> "obj", l |-> << >>]

JNull == [t |-> "null", l |-> << >>]

EmptyObj == [key \in {} |-> JNull]

\* Python truthiness of a JSON value
Truthy(v) ==
    CASE v.t = "null" -> FALSE
      [] v.t = "list" -> v.l # << >>
      [] v.t = "str"  -> v.l[1].s # ""
      [] v.t = "num"  -> v.l[1].s # "0"
      [] OTHER        -> TRUE

\* json.loads(s): an object text is "{" members "}" with optional blanks;
\* members is the object that the "@" of the text denotes
JsonLoads(s, members) ==
    LET t     == Strip(s)
        inner == Strip(Slice(t, 1, Len(t) - 1))
    IN  IF /\ Len(t) >= 2
           /\ t[1] = "{"
           /\ t[Len(t)] = "}"
           /\ inner \in {<< >>, <<"@">>}
        THEN [ok |-> TRUE, obj |-> IF inner = << >> THEN EmptyObj ELSE members]
        ELSE [ok |-> FALSE, obj |-> EmptyObj]

\* ------------------------------------------------------------------------
\* Response models (pydantic validation)
\* ------------------------------------------------------------------------
JobFields ==
    {"required_skills", "preferred_skills", "required_experience",
     "required_education", "responsibilities", "keywords"}

ResumeFields ==
    {"contact_information", "summary", "education", "experience", "skills",
     "projects", "certifications", "additional"}

\* List[str]: a list whose items are all strings
IsStrList(v) == v.t = "list" /\ \A i \in 1..Len(v.l) : v.l[i].k = "str"

\* Optional[str]: a string or null
IsOptStr(v) == v.t \in {"str", "null"}

\* a validation that wraps a bare scalar into a one-item list
JobRequirements_coercing(data) ==
    [ok |-> TRUE,
     val |-> [f \in JobFields |->
                IF f \notin DOMAIN data THEN JList(<< >>)
                ELSE IF data[f].t = "list" THEN data[f]
                ELSE IF data[f].t \in {"str", "num"} /\ Truthy(data[f])
                     THEN JList(<<Str(data[f].l[1].s)>>)
                ELSE JList(<< >>)]]

\* JobRequirements(**data): unknown keys ignored, absent fields take
\* default_factory=list, a field that is not a list of strings is a
\* ValidationError
JobRequirements(data) ==
    IF \A f \in JobFields \cap DOMAIN data : IsStrList(data[f])
    THEN [ok |-> TRUE,
          val |-> [f \in JobFields |->
                     IF f \in DOMAIN data THEN data[f] ELSE JList(<< >>)]]
    ELSE [ok |-> FALSE, val |-> EmptyObj]

\* a validation that resets a wrong-typed field and keeps the others
ResumeSection_repairing(data) ==
    [ok |-> TRUE,
     val |-> [f \in ResumeFields |->
                IF f \in DOMAIN data /\ IsOptStr(data[f]) THEN data[f]
                ELSE JNull]]

\* a model whose fields default to the empty string
ResumeSection_empty_default(data) ==
    IF \A f \in ResumeFields \cap DOMAIN data : IsOptStr(data[f])
    THEN [ok |-> TRUE,
          val |-> [f \in ResumeFields |->
                     IF f \in DOMAIN data THEN data[f] ELSE JStr("")]]
    ELSE [ok |-> FALSE, val |-> EmptyObj]

\* ResumeSection(**data): every field Optional[str] with default None
ResumeSection(data) ==
    IF \A f \in ResumeFields \cap DOMAIN data : IsOptStr(data[f])
    THEN [ok |-> TRUE,
          val |-> [f \in ResumeFields |->
                     IF f \in DOMAIN data THEN data[f] ELSE JNull]]
    ELSE [ok |-> FALSE, val |-> EmptyObj]

\* ------------------------------------------------------------------------
\* Response cleaning
\* ------------------------------------------------------------------------
\* removal of the reasoning block
RemoveThink(result) ==
    IF Contains(result, ThinkOpen) /\ Contains(result, ThinkClose)
    THEN LET think_start == Find(result, ThinkOpen)
             think_end   == FindFrom(result, ThinkClose, think_start)
                            + Len(ThinkClose)
         IN  Slice(result, 0, think_start)
             \o Strip(SliceFrom(result, think_end))
    ELSE result

\* a split at the first fence of any kind
ExtractFence_any_fence_first(result) ==
    IF Contains(result, Fence)
    THEN SplitFirst(SplitSecond(result, Fence), Fence)
    ELSE result

\* content of the first json fence, else of the first fence
ExtractFence(result) ==
    IF Contains(result, FenceJson)
    THEN SplitFirst(SplitSecond(result, FenceJson), Fence)
    ELSE IF Contains(result, Fence)
         THEN SplitFirst(SplitSecond(result, Fence), Fence)
         ELSE result

\* removal of a leading and a trailing fence marker (matcher, generator)
StripFenceEnds(result) ==
    LET r1 == IF StartsWith(result, FenceJson)
              THEN Strip(SliceFrom(result, 7)) ELSE result
        r2 == IF StartsWith(r1, Fence) THEN Strip(SliceFrom(r1, 3)) ELSE r1
    IN  IF EndsWith(r2, Fence) THEN Strip(Slice(r2, 0, Len(r2) - 3)) ELSE r2

json_start(result) == Find(result, LBrace)

\* an end index that stops before the last closing brace
json_end_before_brace(result) == RFind(result, RBrace)

json_end(result) == RFind(result, RBrace) + 1

HasJsonSpan(result) ==
    json_start(result) >= 0 /\ json_end(result) > json_start(result)

json_str(result) == Slice(result, json_start(result), json_end(result))

\* ResumeParser._preprocess_llm_response
preprocess_llm_response(raw_response) ==
    LET r1 == Strip(raw_response)
        r2 == RemoveThink(r1)
        r3 == ExtractFence(r2)
    IN  Strip(IF HasJsonSpan(r3) THEN json_str(r3) ELSE r3)

\* PydanticOutputParser.parse(text): the text as a whole (blanks and
\* backquotes stripped), else what follows the first fence marker, must be a
\* JSON object that validates against the model
JsonStripChars == Whitespace \cup {Backtick}

parse_json_markdown(text, members) ==
    LET whole == JsonLoads(StripChars(text, JsonStripChars), members)
        after == SliceFrom(text, Find(text, Fence) + Len(Fence))
        inner == IF StartsWith(after, <<"j", "s", "o", "n">>)
                 THEN SliceFrom(after, 4) ELSE after
    IN  IF whole.ok \/ ~Contains(text, Fence) THEN whole
        ELSE JsonLoads(StripChars(inner, JsonStripChars), members)

\* validation against the pydantic_object of the output parser
model_validate(pydantic_object, obj) ==
    IF pydantic_object = "JobRequirements" THEN JobRequirements(obj)
    ELSE ResumeSection(obj)

output_parser_parse(text, members, pydantic_object) ==
    LET j == parse_json_markdown(text, members)
    IN  IF j.ok THEN model_validate(pydantic_object, j.obj)
        ELSE [ok |-> FALSE, val |-> EmptyObj]

\* ------------------------------------------------------------------------
\* Inputs: source texts, structured arguments, backend responses
\* ------------------------------------------------------------------------
EmptyText == << >>

BlankText == <<" ", "\n">>

SomeText == <<"p", " ", "p">>

SourceTexts == {EmptyText, BlankText, SomeText}

\* a structured argument: None or {} ("falsy"), neither mapping nor model
\* ("other"), a well-formed mapping ("dict"), a mapping whose entries have
\* the wrong shape for the prompt formatter ("baddict")
ArgKinds == {"falsy", "other", "dict", "baddict"}

NoInput == [text |-> EmptyText, text2 |-> EmptyText,
            arg |-> "falsy", arg2 |-> "falsy"]

Body == <<"{", "@", "}">>

PlainResponse == Body

PaddedResponse == <<" ">> \o Body \o <<"\n">>

\* "<think>reasoning</think>\n" + json fence
ScenarioA ==
    ThinkOpen \o <<"p">> \o ThinkClose \o <<"\n">> \o FenceJson \o <<"\n">>
    \o Body \o <<"\n">> \o Fence

\* "Sure! {...}"
ScenarioB == <<"p", " ">> \o Body

\* prose without braces
ScenarioC == <<"p", " ", "p">>

FencedResponse == Fence \o <<"\n">> \o Body \o <<"\n">> \o Fence

ProseThenFence ==
    <<"p", "\n">> \o FenceJson \o <<"\n">> \o Body \o <<"\n">> \o Fence

ThinkWithBraces ==
    ThinkOpen \o <<"{", "p", "}">> \o ThinkClose \o <<"\n">> \o Body

ReversedBraces == <<"}", "p", "{">>

NotJson == <<"{", "p", "}">>

ResponseTexts ==
    {PlainResponse, PaddedResponse, ScenarioA, ScenarioB, ScenarioC,
     FencedResponse, ProseThenFence, ThinkWithBraces, ReversedBraces, NotJson}

\* sequences over A of length at most MaxListLen
Lists(A) == UNION {[1..n -> A] : n \in 0..MaxListLen}

Scalars == {JStr("Python"), JStr(""), JNum("3"), JNum("0"), JObj, JNull}

Values(A) == {JList(l) : l \in Lists(A)} \cup Scalars

\* objects with any subset of the keys, a value of vals for each
Objects(keys, vals) == UNION {[K -> vals] : K \in SUBSET keys}

\* the same objects, and each of them with an unknown extra key
WithExtra(objs) == objs \cup {o @@ ("comment" :> JStr("Python")) : o \in objs}

ListItems == {Str("Python"), Num("3")}

JobPayloads == WithExtra(Objects({"required_skills", "keywords"}, Values(ListItems)))

ResumePayloads == WithExtra(Objects({"summary", "skills"}, Values(ListItems)))

\* every a extended by every b
Merge(A, B) == {a @@ b : a \in A, b \in B}

MatchItems == {Rec("a", NoPriority), Str("Python")}

MatchPayloads ==
    WithExtra(Merge(Objects({"matches", "gaps"}, Values(MatchItems)),
                    Merge(Objects({"match_score"}, {JNum("3")}),
                          Objects({"section_scores"}, {JObj}))))

RecommendationItems ==
    {Rec("a", 9), Rec("b", 9), Rec("c", 3), Rec("d", NoPriority), Str("Python")}

RecommendationPayloads ==
    WithExtra(Merge(Objects({"recommendations"}, Values(RecommendationItems)),
                    Merge(Objects({"summary"}, {JStr("Python"), JNull}),
                          Objects({"keyword_suggestions"},
                                  {JList(<<Str("Python")>>), JStr("Python"),
                                   JNull}))))

RaiseResponse == [kind |-> "raise", text |-> EmptyText, members |-> EmptyObj]

\* the response texts that carry an object
ObjectTexts == {u \in ResponseTexts : Contains(u, <<"@">>)}

\* what one backend invocation can do: raise, or return a text
Responses(payloads) ==
    {RaiseResponse}
    \cup {[kind |-> "text", text |-> t, members |-> EmptyObj] :
            t \in ResponseTexts \ ObjectTexts}
    \cup {[kind |-> "text", text |-> t, members |-> m] :
            t \in ObjectTexts, m \in payloads}

JobResponses == Responses(JobPayloads)

ResumeResponses == Responses(ResumePayloads)

MatchResponses == Responses(MatchPayloads)

RecommendationResponses == Responses(RecommendationPayloads)

\* ------------------------------------------------------------------------
\* State of one extraction call
\* ------------------------------------------------------------------------
VARIABLES
    pipeline,   \* entry point of the call: "job", "resume", "match", "recommend"
    pc,         \* "idle", "structured", "fallback", "done"
    input,      \* arguments of the call
    prompts,    \* prompts sent to the backend during the call, in order
    att1,       \* how the structured attempt ended ("none" before it)
    att2,       \* how the simplified-prompt attempt ended ("none" before it)
    data,       \* object parsed from the response of the last attempt
    exc,        \* exception that left the entry point ("none": it returned)
    via,        \* return path: "guard", "structured", "fallback", "default"
    result      \* value returned to the caller

\* ------------------------------------------------------------------------
\* State outside the single extraction call
\* ------------------------------------------------------------------------
VARIABLES
    instance,   \* attributes of the analyzer / parser object shared by calls
    calls,      \* per concurrent call: its local variables and position
    fn,         \* pure function under examination ("none": no call made)
    args,       \* its arguments
    ret,        \* what it returned
    sections,   \* EditableResume.sections: name -> EditableResumeSection
    clock,      \* the wall clock read by datetime.now()
    changes,    \* per section: its content right after each recorded change
    op,         \* last editor operation: arguments, outcome, state before it
    session,    \* st.session_state of the Streamlit application
    http        \* one request to the FastAPI backend and its answer

pipeVars == <<pipeline, pc, input, prompts, att1, att2, data, exc, via, result>>

concVars == <<instance, calls>>

fnVars == <<fn, args, ret>>

editVars == <<sections, clock, changes, op>>

appVars == <<session, http>>

otherVars == <<concVars, fnVars, editVars, appVars>>

vars == <<pipeVars, concVars, fnVars, editVars, appVars>>

\* no concurrent call has been started
ConcIdle == instance = << >> /\ calls = << >>

\* neither application is running
AppIdle == session = << >> /\ http = << >>

\* no pure function is under examination
FnIdle == fn = "none" /\ args = << >> /\ ret = << >>

\* no editable resume has been built
EditIdle == sections = << >> /\ clock = 0 /\ changes = << >> /\ op = << >>

PipeIdle ==
    /\ pipeline = "none"
    /\ pc = "idle"
    /\ input = NoInput
    /\ prompts = << >>
    /\ att1 = "none"
    /\ att2 = "none"
    /\ data = EmptyObj
    /\ exc = "none"
    /\ via = "none"
    /\ result = EmptyObj

Init ==
    /\ ConcIdle /\ FnIdle /\ EditIdle /\ AppIdle
    /\ pipeline = "none"
    /\ pc = "idle"
    /\ input = NoInput
    /\ prompts = << >>
    /\ att1 = "none"
    /\ att2 = "none"
    /\ data = EmptyObj
    /\ exc = "none"
    /\ via = "none"
    /\ result = EmptyObj

\* entry into a call: which pipeline, with which arguments
Enter(p, in) ==
    /\ pc = "idle"
    /\ UNCHANGED otherVars
    /\ pipeline' = p
    /\ input' = in
    /\ att1' = "none"
    /\ att2' = "none"
    /\ data' = EmptyObj

\* the entry point returns r along path v
Return(v, r) ==
    /\ pc' = "done"
    /\ exc' = "none"
    /\ via' = v
    /\ result' = r

\* exception e leaves the entry point
Raise(e) ==
    /\ pc' = "done"
    /\ exc' = e
    /\ via' = "none"
    /\ result' = EmptyObj

\* the caller takes the result; the next call may start
Finish ==
    /\ pc = "done"
    /\ UNCHANGED otherVars
    /\ pc' = "idle"
    /\ pipeline' = "none"
    /\ input' = NoInput
    /\ prompts' = << >>
    /\ att1' = "none"
    /\ att2' = "none"
    /\ data' = EmptyObj
    /\ exc' = "none"
    /\ via' = "none"
    /\ result' = EmptyObj

\* ------------------------------------------------------------------------
\* JobAnalyzer
\* ------------------------------------------------------------------------
EmptyJobRequirements == [f \in JobFields |-> JList(<< >>)]

\* outcome of one attempt: st its status, obj the object parsed, val the
\* validated value
Attempt(st, obj, val) == [st |-> st, obj |-> obj, val |-> val]

\* chain = job_analysis_prompt | llm | output_parser
job_chain(resp) ==
    IF resp.kind = "raise" THEN Attempt("backend_error", EmptyObj, EmptyObj)
    ELSE LET j == parse_json_markdown(resp.text, resp.members)
             m == output_parser_parse(resp.text, resp.members, "JobRequirements")
         IN  IF ~j.ok THEN Attempt("decode_error", EmptyObj, EmptyObj)
             ELSE IF ~m.ok THEN Attempt("validation_error", j.obj, EmptyObj)
             ELSE Attempt("ok", j.obj, m.val)

\* body of the try block of JobAnalyzer._fallback_parse
job_fallback_body(resp) ==
    IF resp.kind = "raise" THEN Attempt("backend_error", EmptyObj, EmptyObj)
    ELSE LET r == ExtractFence(Strip(resp.text))
             j == JsonLoads(json_str(r), resp.members)
             m == JobRequirements(j.obj)
         IN  IF ~HasJsonSpan(r) THEN Attempt("no_json", EmptyObj, EmptyObj)
             ELSE IF ~j.ok THEN Attempt("decode_error", EmptyObj, EmptyObj)
             ELSE IF ~m.ok THEN Attempt("validation_error", j.obj, EmptyObj)
             ELSE Attempt("ok", j.obj, m.val)

\* a fallback without its except clause for backend errors
job_fallback_parse_propagates(a) ==
    IF a.st = "ok" THEN [exc |-> "none", via |-> "fallback", val |-> a.val]
    ELSE IF a.st = "backend_error"
         THEN [exc |-> "Exception", via |-> "none", val |-> EmptyObj]
         ELSE [exc |-> "none", via |-> "default", val |-> EmptyJobRequirements]

\* JobAnalyzer._fallback_parse: what leaves the function, [exc, via, val]
job_fallback_parse(a) ==
    IF a.st = "ok" THEN [exc |-> "none", via |-> "fallback", val |-> a.val]
    ELSE [exc |-> "none", via |-> "default", val |-> EmptyJobRequirements]

\* analyze_job_description up to the backend invocation
analyze_job_description ==
    \E text \in SourceTexts :
        /\ Enter("job", [NoInput EXCEPT !.text = text])
        /\ IF text = EmptyText \/ Strip(text) = EmptyText
           THEN /\ Return("guard", EmptyJobRequirements)
                /\ prompts' = << >>
           ELSE /\ pc' = "structured"
                /\ prompts' = <<"job_analysis_prompt">>
                /\ UNCHANGED <<exc, via, result>>

\* an except clause that returns the empty structure at once
analyze_job_description_chain_no_fallback ==
    /\ pc = "structured" /\ pipeline = "job"
    /\ \E resp \in JobResponses :
         LET a == job_chain(resp)
         IN  /\ att1' = a.st
             /\ data' = a.obj
             /\ IF a.st = "ok" THEN Return("structured", a.val)
                ELSE Return("default", EmptyJobRequirements)
    /\ UNCHANGED <<otherVars, pipeline, input, prompts, att2>>

\* the chain returns or raises; on an exception _fallback_parse is entered
\* and invokes the backend with the simple prompt
analyze_job_description_chain ==
    /\ pc = "structured" /\ pipeline = "job"
    /\ \E resp \in JobResponses :
         LET a == job_chain(resp)
         IN  /\ att1' = a.st
             /\ IF a.st = "ok"
                THEN /\ Return("structured", a.val)
                     /\ data' = a.obj
                     /\ UNCHANGED prompts
                ELSE /\ pc' = "fallback"
                     /\ prompts' = Append(prompts, "simple_prompt")
                     /\ UNCHANGED <<data, exc, via, result>>
    /\ UNCHANGED <<otherVars, pipeline, input, att2>>

\* a fallback that sends the simple prompt once more after a failure
analyze_job_description_fallback_retry ==
    /\ pc = "fallback" /\ pipeline = "job"
    /\ \E resp \in JobResponses :
         LET a == job_fallback_body(resp)
             r == job_fallback_parse(a)
         IN  /\ att2' = a.st
             /\ data' = a.obj
             /\ IF a.st # "ok" /\ Len(prompts) < 3
                THEN /\ pc' = "fallback"
                     /\ prompts' = Append(prompts, "simple_prompt")
                     /\ UNCHANGED <<exc, via, result>>
                ELSE /\ Return(r.via, r.val)
                     /\ UNCHANGED prompts
    /\ UNCHANGED <<otherVars, pipeline, input, att1>>

\* the simple chain returns or raises inside _fallback_parse
analyze_job_description_fallback ==
    /\ pc = "fallback" /\ pipeline = "job"
    /\ \E resp \in JobResponses :
         LET a == job_fallback_body(resp)
             r == job_fallback_parse(a)
         IN  /\ att2' = a.st
             /\ data' = a.obj
             /\ IF r.exc = "none" THEN Return(r.via, r.val) ELSE Raise(r.exc)
    /\ UNCHANGED <<otherVars, pipeline, input, prompts, att1>>

\* ------------------------------------------------------------------------
\* ResumeParser
\* ------------------------------------------------------------------------
\* methods defined by class ResumeParser
ResumeParserMethods ==
    {"__init__", "extract_text_from_pdf", "identify_sections",
     "_preprocess_llm_response", "_fallback_parse",
     "extract_style_information", "_calculate_indentation", "parse_resume"}

\* ResumeSection(): every field at its declared default
EmptyResumeSection == [f \in ResumeFields |-> JNull]

\* try block of identify_sections: raw response, cleaning, output parser
resume_chain(resp) ==
    IF resp.kind = "raise" THEN Attempt("backend_error", EmptyObj, EmptyObj)
    ELSE LET cleaned_response == preprocess_llm_response(resp.text)
             j == parse_json_markdown(cleaned_response, resp.members)
             m == output_parser_parse(cleaned_response, resp.members,
                                      "ResumeSection")
         IN  IF ~j.ok THEN Attempt("decode_error", EmptyObj, EmptyObj)
             ELSE IF ~m.ok THEN Attempt("validation_error", j.obj, EmptyObj)
             ELSE Attempt("ok", j.obj, m.val)

\* body of the try block of ResumeParser._fallback_parse
resume_fallback_body(resp) ==
    IF resp.kind = "raise" THEN Attempt("backend_error", EmptyObj, EmptyObj)
    ELSE LET r == ExtractFence(RemoveThink(Strip(resp.text)))
             j == JsonLoads(json_str(r), resp.members)
             m == ResumeSection(j.obj)
         IN  IF ~HasJsonSpan(r) THEN Attempt("no_json", EmptyObj, EmptyObj)
             ELSE IF ~j.ok THEN Attempt("decode_error", EmptyObj, EmptyObj)
             ELSE IF ~m.ok THEN Attempt("validation_error", j.obj, EmptyObj)
             ELSE Attempt("ok", j.obj, m.val)

\* ResumeParser._fallback_parse: without a JSON span, and in the except
\* handler, it calls self._basic_section_identification(resume_text)
resume_fallback_parse(a) ==
    IF a.st = "ok" THEN [exc |-> "none", via |-> "fallback", val |-> a.val]
    ELSE IF "_basic_section_identification" \in ResumeParserMethods
         THEN [exc |-> "none", via |-> "default", val |-> EmptyResumeSection]
         ELSE [exc |-> "AttributeError", via |-> "none", val |-> EmptyObj]

\* identify_sections up to the backend invocation (no check of the text)
identify_sections ==
    \E text \in SourceTexts :
        /\ Enter("resume", [NoInput EXCEPT !.text = text])
        /\ pc' = "structured"
        /\ prompts' = <<"section_id_prompt">>
        /\ UNCHANGED <<exc, via, result>>

identify_sections_chain ==
    /\ pc = "structured" /\ pipeline = "resume"
    /\ \E resp \in ResumeResponses :
         LET a == resume_chain(resp)
         IN  /\ att1' = a.st
             /\ IF a.st = "ok"
                THEN /\ Return("structured", a.val)
                     /\ data' = a.obj
                     /\ UNCHANGED prompts
                ELSE /\ pc' = "fallback"
                     /\ prompts' = Append(prompts, "simple_prompt")
                     /\ UNCHANGED <<data, exc, via, result>>
    /\ UNCHANGED <<otherVars, pipeline, input, att2>>

identify_sections_fallback ==
    /\ pc = "fallback" /\ pipeline = "resume"
    /\ \E resp \in ResumeResponses :
         LET a == resume_fallback_body(resp)
             r == resume_fallback_parse(a)
         IN  /\ att2' = a.st
             /\ data' = a.obj
             /\ IF r.exc = "none" THEN Return(r.via, r.val) ELSE Raise(r.exc)
    /\ UNCHANGED <<otherVars, pipeline, input, prompts, att1>>

\* ------------------------------------------------------------------------
\* ResumeMatcher
\* ------------------------------------------------------------------------
\* ResumeMatcher._basic_comparison_result
basic_comparison_result ==
    [key \in {"matches", "gaps", "match_score", "section_scores"} |->
        CASE key \in {"matches", "gaps"} -> JList(<< >>)
          [] key = "match_score"         -> JNum("0")
          [] OTHER                       -> JObj]

\* a match_score default that is assigned whether or not the key is there
compare_body_score_reset(resp) ==
    IF resp.kind = "raise" THEN Attempt("backend_error", EmptyObj, EmptyObj)
    ELSE LET r == StripFenceEnds(RemoveThink(Strip(resp.text)))
             j == JsonLoads(json_str(r), resp.members)
             comparison_results ==
                 [key \in DOMAIN j.obj \cup DOMAIN basic_comparison_result |->
                    IF key \in DOMAIN j.obj /\ key # "match_score"
                    THEN j.obj[key]
                    ELSE basic_comparison_result[key]]
         IN  IF ~HasJsonSpan(r) THEN Attempt("no_json", EmptyObj, EmptyObj)
             ELSE IF ~j.ok THEN Attempt("decode_error", EmptyObj, EmptyObj)
             ELSE Attempt("ok", j.obj, comparison_results)

\* cleaning and parsing of the comparison response, then the four
\* "not in comparison_results" defaults
compare_body(resp) ==
    IF resp.kind = "raise" THEN Attempt("backend_error", EmptyObj, EmptyObj)
    ELSE LET r == StripFenceEnds(RemoveThink(Strip(resp.text)))
             j == JsonLoads(json_str(r), resp.members)
             comparison_results ==
                 [key \in DOMAIN j.obj \cup DOMAIN basic_comparison_result |->
                    IF key \in DOMAIN j.obj THEN j.obj[key]
                    ELSE basic_comparison_result[key]]
         IN  IF ~HasJsonSpan(r) THEN Attempt("no_json", EmptyObj, EmptyObj)
             ELSE IF ~j.ok THEN Attempt("decode_error", EmptyObj, EmptyObj)
             ELSE Attempt("ok", j.obj, comparison_results)

\* compare_resume_to_job up to the backend invocation: input validation,
\* then the prompt formatters inside the try block
compare_resume_to_job_call(resume_data, job_requirements) ==
    /\ Enter("match", [NoInput EXCEPT !.arg = resume_data,
                                      !.arg2 = job_requirements])
    /\ IF \/ resume_data \in {"falsy", "other"}
          \/ job_requirements \in {"falsy", "other"}
       THEN /\ Return("guard", basic_comparison_result)
            /\ prompts' = << >>
       ELSE IF resume_data = "baddict"
       THEN /\ Return("default", basic_comparison_result)
            /\ prompts' = << >>
       ELSE /\ pc' = "structured"
            /\ prompts' = <<"comparison_prompt">>
            /\ UNCHANGED <<exc, via, result>>

compare_resume_to_job ==
    \E resume_data \in ArgKinds, job_requirements \in ArgKinds \ {"baddict"} :
        compare_resume_to_job_call(resume_data, job_requirements)

compare_resume_to_job_chain ==
    /\ pc = "structured" /\ pipeline = "match"
    /\ \E resp \in MatchResponses :
         LET a == compare_body(resp)
         IN  /\ att1' = a.st
             /\ data' = a.obj
             /\ IF a.st = "ok" THEN Return("structured", a.val)
                ELSE Return("default", basic_comparison_result)
    /\ UNCHANGED <<otherVars, pipeline, input, prompts, att2>>

\* ------------------------------------------------------------------------
\* RecommendationGenerator
\* ------------------------------------------------------------------------
\* RecommendationGenerator._basic_recommendations
basic_recommendations ==
    [key \in {"summary", "recommendations", "keyword_suggestions"} |->
        IF key = "summary"
        THEN JStr("Unable to generate detailed recommendations.")
        ELSE JList(<< >>)]

\* x.get("priority", 0)
Priority(x) == IF x.pr = NoPriority THEN 0 ELSE x.pr

\* x placed ahead of the items whose priority equals its own
InsertByPriority_ahead_of_equals(s, x) ==
    LET ahead == {i \in 1..Len(s) : Priority(s[i]) > Priority(x)}
        n     == Cardinality(ahead)
    IN  SubSeq(s, 1, n) \o <<x>> \o SubSeq(s, n + 1, Len(s))

\* x placed behind the items of the descending sequence s whose priority
\* is at least its own
InsertByPriority(s, x) ==
    LET ahead == {i \in 1..Len(s) : Priority(s[i]) >= Priority(x)}
        n     == Cardinality(ahead)
    IN  SubSeq(s, 1, n) \o <<x>> \o SubSeq(s, n + 1, Len(s))

RECURSIVE SortedByPriority(_)
\* sorted(items, key=priority, reverse=True): stable
SortedByPriority(items) ==
    IF items = << >> THEN << >>
    ELSE InsertByPriority(SortedByPriority(SubSeq(items, 1, Len(items) - 1)),
                          items[Len(items)])

\* prioritize_recommendations: [ok, val]; the key function raises
\* AttributeError on an item that is not a mapping
prioritize_recommendations(recommendations) ==
    IF "recommendations" \notin DOMAIN recommendations
    THEN [ok |-> TRUE, val |-> recommendations]
    ELSE IF \E i \in 1..Len(recommendations["recommendations"].l) :
               recommendations["recommendations"].l[i].k # "obj"
    THEN [ok |-> FALSE, val |-> EmptyObj]
    ELSE [ok |-> TRUE,
          val |-> [recommendations EXCEPT !["recommendations"] =
                     JList(SortedByPriority(@.l))]]

DefaultSummary ==
    JStr("Consider tailoring your resume to better match the job requirements.")

\* structure checks that forget the keyword_suggestions default
validate_recommendations_no_keywords(obj) ==
    [key \in DOMAIN obj \cup {"summary", "recommendations"} |->
        CASE key = "summary" ->
               IF key \in DOMAIN obj THEN obj[key] ELSE DefaultSummary
          [] key = "recommendations" ->
               IF key \in DOMAIN obj /\ obj[key].t = "list" THEN obj[key]
               ELSE JList(<< >>)
          [] OTHER -> obj[key]]

\* the structure checks on the parsed recommendations
validate_recommendations(obj) ==
    [key \in DOMAIN obj \cup DOMAIN basic_recommendations |->
        CASE key = "summary" ->
               IF key \in DOMAIN obj THEN obj[key] ELSE DefaultSummary
          [] key \in {"recommendations", "keyword_suggestions"} ->
               IF key \in DOMAIN obj /\ obj[key].t = "list" THEN obj[key]
               ELSE JList(<< >>)
          [] OTHER -> obj[key]]

\* cleaning and parsing of the recommendation response, the structure
\* checks, the sort
recommend_body(resp) ==
    IF resp.kind = "raise" THEN Attempt("backend_error", EmptyObj, EmptyObj)
    ELSE LET r == StripFenceEnds(RemoveThink(Strip(resp.text)))
             j == JsonLoads(json_str(r), resp.members)
             s == prioritize_recommendations(validate_recommendations(j.obj))
         IN  IF ~HasJsonSpan(r) THEN Attempt("no_json", EmptyObj, EmptyObj)
             ELSE IF ~j.ok THEN Attempt("decode_error", EmptyObj, EmptyObj)
             ELSE IF ~s.ok THEN Attempt("sort_error", j.obj, EmptyObj)
             ELSE Attempt("ok", j.obj, s.val)

\* generate_recommendations up to the backend invocation: input
\* validation, then the formatter of the comparison results
generate_recommendations_call(resume_text, job_description, comparison_results) ==
    /\ Enter("recommend", [NoInput EXCEPT !.text = resume_text,
                                          !.text2 = job_description,
                                          !.arg = comparison_results])
    /\ IF \/ resume_text = EmptyText
          \/ job_description = EmptyText
          \/ comparison_results \in {"falsy", "other"}
       THEN /\ Return("guard", basic_recommendations)
            /\ prompts' = << >>
       ELSE IF comparison_results = "baddict"
       THEN /\ Return("default", basic_recommendations)
            /\ prompts' = << >>
       ELSE /\ pc' = "structured"
            /\ prompts' = <<"recommendation_prompt">>
            /\ UNCHANGED <<exc, via, result>>

generate_recommendations ==
    \E resume_text \in SourceTexts, job_description \in SourceTexts,
       comparison_results \in ArgKinds :
        generate_recommendations_call(resume_text, job_description,
                                      comparison_results)

generate_recommendations_chain ==
    /\ pc = "structured" /\ pipeline = "recommend"
    /\ \E resp \in RecommendationResponses :
         LET a == recommend_body(resp)
         IN  /\ att1' = a.st
             /\ data' = a.obj
             /\ IF a.st = "ok" THEN Return("structured", a.val)
                ELSE Return("default", basic_recommendations)
    /\ UNCHANGED <<otherVars, pipeline, input, prompts, att2>>

\* ------------------------------------------------------------------------
\* Specification
\* ------------------------------------------------------------------------
Next ==
    \/ analyze_job_description
    \/ analyze_job_description_chain
    \/ analyze_job_description_fallback
    \/ identify_sections
    \/ identify_sections_chain
    \/ identify_sections_fallback
    \/ compare_resume_to_job
    \/ compare_resume_to_job_chain
    \/ generate_recommendations
    \/ generate_recommendations_chain
    \/ Finish

Spec == Init /\ [][Next]_vars

\* ------------------------------------------------------------------------
\* Properties
\* ------------------------------------------------------------------------
Done(p) == pc = "done" /\ pipeline = p

Failed(att) == att \notin {"none", "ok"}

\* status of the attempt that ended the call
LastAtt == IF att2 # "none" THEN att2 ELSE att1

\* a value that is an instance of JobRequirements
IsJobRequirements(r) ==
    DOMAIN r = JobFields /\ \A f \in JobFields : IsStrList(r[f])

\* C1: analyze_job_description never lets an exception out and always
\* returns a JobRequirements instance, whatever the backend does on the
\* structured attempt and on the simplified-prompt attempt.
C1_JobAnalyzerAlwaysReturns ==
    Done("job") => (exc = "none" /\ IsJobRequirements(result))

C1_Witness ==
    /\ Done("job")
    /\ att1 = "backend_error"
    /\ att2 = "backend_error"
    /\ exc = "none"
    /\ result = EmptyJobRequirements

\* C2: identify_sections never raises; when both attempts fail it returns
\* a ResumeSection with every field at its declared default.
C2_IdentifySectionsNeverRaises ==
    Done("resume") =>
        /\ exc = "none"
        /\ (Failed(att1) /\ Failed(att2)) => result = EmptyResumeSection

\* C3: compare_resume_to_job returns a mapping with the keys matches, gaps,
\* match_score and section_scores, generate_recommendations one with the
\* keys summary, recommendations and keyword_suggestions; neither raises.
C3_ResultKeysPresent ==
    /\ Done("match") =>
         /\ exc = "none"
         /\ {"matches", "gaps", "match_score", "section_scores"}
                \subseteq DOMAIN result
    /\ Done("recommend") =>
         /\ exc = "none"
         /\ {"summary", "recommendations", "keyword_suggestions"}
                \subseteq DOMAIN result

C3_Witness ==
    /\ Done("recommend")
    /\ att1 = "ok"
    /\ "keyword_suggestions" \notin DOMAIN data
    /\ "recommendations" \in DOMAIN data
    /\ result["keyword_suggestions"] = JList(<< >>)

C5_AtMostTwoInvocations ==
    pipeline \in {"job", "resume"} =>
        /\ Len(prompts) <= 2
        /\ (pc = "done" /\ att1 = "ok") => Len(prompts) = 1
        /\ Len(prompts) = 2 => (Failed(att1) /\ prompts[2] = "simple_prompt")
        /\ pc \in {"structured", "fallback"} => att2 = "none"

C5_Witness ==
    /\ Done("resume")
    /\ att1 = "validation_error"
    /\ att2 = "ok"
    /\ Len(prompts) = 2

\* C6: an empty or whitespace-only source text yields the default result
\* and the backend is not invoked during that call.
C6_EmptyTextNoBackend ==
    (pipeline \in {"job", "resume", "recommend"}
     /\ Strip(input.text) = EmptyText) =>
        /\ prompts = << >>
        /\ pc = "done"
        /\ via = "guard"

\* C7: every list-typed field of a returned result is a list: the six
\* fields of JobRequirements, matches and gaps of the comparison result,
\* recommendations and keyword_suggestions of the recommendation result.
C7_ListFieldsAreLists ==
    (pc = "done" /\ exc = "none") =>
        /\ pipeline = "job" => \A f \in JobFields : result[f].t = "list"
        /\ pipeline = "match" =>
             \A f \in {"matches", "gaps"} : result[f].t = "list"
        /\ pipeline = "recommend" =>
             \A f \in {"recommendations", "keyword_suggestions"} :
                 result[f].t = "list"

\* a bare string or number
IsScalar(v) == v.t \in {"str", "num"}

FieldsOf(p) == IF p = "job" THEN JobFields ELSE ResumeFields

WellTyped(p, v) == IF p = "job" THEN IsStrList(v) ELSE IsOptStr(v)

DefaultOf(p) == IF p = "job" THEN JList(<< >>) ELSE JNull

CallIds == {1, 2}

\* the object after construction: the attributes __init__ assigns
NewInstance(kind) ==
    IF kind = "JobAnalyzer"
    THEN [kind |-> kind, llm |-> "llm", output_parser |-> "JobRequirements",
          prompt |-> "job_analysis_prompt"]
    ELSE [kind |-> kind, llm |-> "llm", output_parser |-> "ResumeSection",
          prompt |-> "section_id_prompt"]

NoResponse == [kind |-> "none", text |-> EmptyText, members |-> EmptyObj]

NoResult == [exc |-> "none", via |-> "none", val |-> EmptyObj]

NewCall ==
    [pc |-> "idle", text |-> EmptyText, raw |-> NoResponse,
     received |-> << >>, result |-> NoResult, overlap |-> FALSE]

ConcPayloads(kind) ==
    IF kind = "JobAnalyzer"
    THEN {("keywords" :> JList(<<Str("Python")>>)),
          ("keywords" :> JStr("Python"))}
    ELSE {("skills" :> JStr("Python")),
          ("skills" :> JNum("3"))}

ConcResponses(kind) ==
    {RaiseResponse, [kind |-> "text", text |-> ScenarioC, members |-> EmptyObj]}
    \cup {[kind |-> "text", text |-> t, members |-> m] :
            t \in {PlainResponse, ScenarioB}, m \in ConcPayloads(kind)}

\* some other call is between receiving a response and parsing it
OtherHoldsResponse(c) ==
    \E d \in CallIds \ {c} : calls[d].pc \in {"parsing", "fb_parsing"}

\* a local variable of a method lives in the frame of its own call
Frame_attribute_of_self(c) == 1

Frame(c) == c

InitConc ==
    /\ PipeIdle /\ FnIdle /\ EditIdle /\ AppIdle
    /\ instance \in {NewInstance("JobAnalyzer"), NewInstance("ResumeParser")}
    /\ calls = [c \in CallIds |-> NewCall]

\* the structured attempt and the fallback of the object's class
conc_chain(resp) ==
    IF instance.kind = "JobAnalyzer" THEN job_chain(resp) ELSE resume_chain(resp)

conc_fallback(resp) ==
    IF instance.kind = "JobAnalyzer"
    THEN job_fallback_parse(job_fallback_body(resp))
    ELSE resume_fallback_parse(resume_fallback_body(resp))

\* call c enters analyze_job_description / identify_sections
conc_enter(c) ==
    /\ calls[c].pc = "idle"
    /\ \E text \in SourceTexts :
         IF /\ instance.kind = "JobAnalyzer"
            /\ (text = EmptyText \/ Strip(text) = EmptyText)
         THEN calls' = [calls EXCEPT ![c].pc = "done", ![c].text = text,
                           ![c].result = [exc |-> "none", via |-> "guard",
                                          val |-> EmptyJobRequirements]]
         ELSE calls' = [calls EXCEPT ![c].pc = "invoking", ![c].text = text]
    /\ UNCHANGED <<appVars, pipeVars, fnVars, editVars, instance>>

\* the backend answers the structured prompt of call c
conc_invoke(c) ==
    /\ calls[c].pc = "invoking"
    /\ \E resp \in ConcResponses(instance.kind) :
         calls' = [calls EXCEPT ![c].pc = "parsing",
                                ![c].received = Append(@, resp),
                                ![c].overlap = @ \/ OtherHoldsResponse(c),
                                ![Frame(c)].raw = resp]
    /\ UNCHANGED <<appVars, pipeVars, fnVars, editVars, instance>>

\* call c cleans, parses and validates the response it holds
conc_parse(c) ==
    /\ calls[c].pc = "parsing"
    /\ LET a == conc_chain(calls[Frame(c)].raw)
       IN  IF a.st = "ok"
           THEN calls' = [calls EXCEPT ![c].pc = "done",
                             ![c].result = [exc |-> "none",
                                            via |-> "structured",
                                            val |-> a.val]]
           ELSE calls' = [calls EXCEPT ![c].pc = "fb_invoking"]
    /\ UNCHANGED <<appVars, pipeVars, fnVars, editVars, instance>>

\* the backend answers the simple prompt of call c
conc_fallback_invoke(c) ==
    /\ calls[c].pc = "fb_invoking"
    /\ \E resp \in ConcResponses(instance.kind) :
         calls' = [calls EXCEPT ![c].pc = "fb_parsing",
                                ![c].received = Append(@, resp),
                                ![c].overlap = @ \/ OtherHoldsResponse(c),
                                ![Frame(c)].raw = resp]
    /\ UNCHANGED <<appVars, pipeVars, fnVars, editVars, instance>>

\* call c finishes _fallback_parse on the response it holds
conc_fallback_parse(c) ==
    /\ calls[c].pc = "fb_parsing"
    /\ calls' = [calls EXCEPT ![c].pc = "done",
                              ![c].result = conc_fallback(calls[Frame(c)].raw)]
    /\ UNCHANGED <<appVars, pipeVars, fnVars, editVars, instance>>

NextConc ==
    \/ \E c \in CallIds : conc_enter(c)
    \/ \E c \in CallIds : conc_invoke(c)
    \/ \E c \in CallIds : conc_parse(c)
    \/ \E c \in CallIds : conc_fallback_invoke(c)
    \/ \E c \in CallIds : conc_fallback_parse(c)

SpecConc == InitConc /\ [][NextConc]_vars

\* what one call alone returns for its text and the responses it received
AloneResult(kind, text, received) ==
    IF kind = "JobAnalyzer" /\ (text = EmptyText \/ Strip(text) = EmptyText)
    THEN [exc |-> "none", via |-> "guard", val |-> EmptyJobRequirements]
    ELSE LET a == IF kind = "JobAnalyzer" THEN job_chain(received[1])
                  ELSE resume_chain(received[1])
         IN  IF a.st = "ok"
             THEN [exc |-> "none", via |-> "structured", val |-> a.val]
             ELSE IF Len(received) < 2 THEN NoResult
             ELSE IF kind = "JobAnalyzer"
                  THEN job_fallback_parse(job_fallback_body(received[2]))
                  ELSE resume_fallback_parse(resume_fallback_body(received[2]))

\* C11: under every interleaving of two calls on one analyzer or parser
\* object, a finished call holds the result that its own text and the
\* responses to its own invocations determine, and the attributes of the
\* object are those set at construction.
C11_CallsDoNotInterfere ==
    /\ instance = NewInstance(instance.kind)
    /\ \A c \in CallIds :
         calls[c].pc = "done" =>
           calls[c].result =
             AloneResult(instance.kind, calls[c].text, calls[c].received)

\* both calls finished on the same text with different responses, one
\* response arriving while the other call still held its own unparsed
C11_Witness ==
    /\ \A c \in CallIds : calls[c].pc = "done" /\ Len(calls[c].received) >= 1
    /\ \E c \in CallIds : calls[c].overlap
    /\ calls[1].received[1] # calls[2].received[1]
    /\ calls[1].result # calls[2].result
    /\ calls[1].text = calls[2].text

\* ------------------------------------------------------------------------
\* prioritize_recommendations on its own
\* ------------------------------------------------------------------------
MaxRecs == 3

SortItems ==
    {Rec("a", 9), Rec("b", 9), Rec("c", 3), Rec("d", NoPriority), Rec("e", 0),
     Str("Python")}

SortLists == UNION {[1..n -> SortItems] : n \in 0..MaxRecs}

InitSort ==
    /\ PipeIdle /\ ConcIdle /\ EditIdle /\ AppIdle
    /\ fn = "none"
    /\ args \in {("recommendations" :> JList(l)) : l \in SortLists}
    /\ ret = << >>

\* a direct call of prioritize_recommendations
sort_prioritize ==
    /\ fn = "none"
    /\ fn' = "prioritize_recommendations"
    /\ ret' = prioritize_recommendations(args)
    /\ UNCHANGED <<appVars, pipeVars, concVars, editVars, args>>

\* generate_recommendations from the response on: the backend answers with
\* the object, bare or behind reasoning and a fence
sort_generate ==
    /\ fn = "none"
    /\ \E text \in {PlainResponse, ScenarioA} :
         LET a == recommend_body([kind |-> "text", text |-> text,
                                  members |-> args])
         IN  /\ fn' = "generate_recommendations"
             /\ ret' = [ok |-> a.st = "ok",
                        val |-> IF a.st = "ok" THEN a.val
                                ELSE basic_recommendations]
    /\ UNCHANGED <<appVars, pipeVars, concVars, editVars, args>>

NextSort == sort_prioritize \/ sort_generate

SpecSort == InitSort /\ [][NextSort]_vars

AllMappings(l) == \A i \in 1..Len(l) : l[i].k = "obj"

\* out is in rearranged into non-increasing priority, equal priorities in
\* their order of in
StableDescending(in, out) ==
    /\ Len(out) = Len(in)
    /\ \E p \in [1..Len(in) -> 1..Len(in)] :
         /\ \A i, j \in 1..Len(in) : i # j => p[i] # p[j]
         /\ \A i \in 1..Len(in) : out[i] = in[p[i]]
         /\ \A i, j \in 1..Len(in) :
              i < j => \/ Priority(out[i]) > Priority(out[j])
                       \/ Priority(out[i]) = Priority(out[j]) /\ p[i] < p[j]

\* C12: for a list of recommendation mappings, prioritize_recommendations
\* and a successfully parsing generate_recommendations return a permutation
\* of the list in non-increasing priority (missing priority as 0), equal
\* priorities in their original order.
C12_StableDescendingPriority ==
    (fn # "none" /\ AllMappings(args["recommendations"].l)) =>
        /\ ret.ok
        /\ StableDescending(args["recommendations"].l,
                            ret.val["recommendations"].l)

\* generate_recommendations moved a low priority from the front to the
\* back and kept two different recommendations of equal priority in order
C12_Witness ==
    /\ fn = "generate_recommendations" /\ ret.ok
    /\ args["recommendations"].l = <<Rec("c", 3), Rec("a", 9), Rec("b", 9)>>
    /\ ret.val["recommendations"].l = <<Rec("a", 9), Rec("b", 9), Rec("c", 3)>>

\* ------------------------------------------------------------------------
\* ResumeMatcher.calculate_keyword_match
\* ------------------------------------------------------------------------
MaxTextLen == 2

MaxKeywords == 3

\* str.lower() on one character
LowerChar(c) == IF c = "A" THEN "a" ELSE IF c = "B" THEN "b" ELSE c

\* str.lower()
lower(s) == [i \in 1..Len(s) |-> LowerChar(s[i])]

\* round(num / den * 100, 1) in tenths; a value halfway between two tenths
\* goes to the even one
RoundedPercent(num, den) ==
    LET q == (1000 * num) \div den
        r == (1000 * num) % den
    IN  IF 2 * r > den \/ (2 * r = den /\ q % 2 = 1) THEN q + 1 ELSE q

\* a comparison that lowers the resume text only
calculate_keyword_match_keyword_as_given(resume_text, keywords) ==
    LET text    == lower(resume_text)
        Hit(k)  == Contains(text, k)
        Miss(k) == ~Contains(text, k)
        matched_keywords == SelectSeq(keywords, Hit)
    IN  [matched_keywords |-> matched_keywords,
         missing_keywords |-> SelectSeq(keywords, Miss),
         keyword_match_score |->
            IF keywords # << >>
            THEN RoundedPercent(Len(matched_keywords), Len(keywords))
            ELSE 0]

\* keyword_match_score is held in tenths of a percent
calculate_keyword_match(resume_text, keywords) ==
    LET text    == lower(resume_text)
        Hit(k)  == Contains(text, lower(k))
        Miss(k) == ~Contains(text, lower(k))
        matched_keywords == SelectSeq(keywords, Hit)
    IN  [matched_keywords |-> matched_keywords,
         missing_keywords |-> SelectSeq(keywords, Miss),
         keyword_match_score |->
            IF keywords # << >>
            THEN RoundedPercent(Len(matched_keywords), Len(keywords))
            ELSE 0]

KeywordChars == {"a", "A", "b"}

KeywordTexts == UNION {[1..n -> KeywordChars] : n \in 0..MaxTextLen}

Keywords == {<<"a">>, <<"A">>, <<"b">>, <<"A", "b">>, <<"b", "b">>}

KeywordLists == UNION {[1..n -> Keywords] : n \in 0..MaxKeywords}

InitKeyword ==
    /\ PipeIdle /\ ConcIdle /\ EditIdle /\ AppIdle
    /\ fn = "none"
    /\ args \in [resume_text : KeywordTexts, keywords : KeywordLists]
    /\ ret = << >>

keyword_match ==
    /\ fn = "none"
    /\ fn' = "calculate_keyword_match"
    /\ ret' = calculate_keyword_match(args.resume_text, args.keywords)
    /\ UNCHANGED <<appVars, pipeVars, concVars, editVars, args>>

NextKeyword == keyword_match

SpecKeyword == InitKeyword /\ [][NextKeyword]_vars

\* k occurs in text at some offset, letter case ignored
OccursIgnoringCase(text, k) ==
    \E off \in 0..(Len(text) - Len(k)) :
        \A i \in 1..Len(k) : LowerChar(text[off + i]) = LowerChar(k[i])

Elements(s) == {s[i] : i \in 1..Len(s)}

\* C13: calculate_keyword_match gives score 0 for an empty keyword list,
\* otherwise the tenth nearest to 100 * (keywords occurring in the text,
\* case ignored) / (keywords); each keyword is in exactly one of
\* matched_keywords and missing_keywords.
C13_KeywordMatchScore ==
    fn = "calculate_keyword_match" =>
        LET kws  == args.keywords
            hits == {i \in 1..Len(kws) :
                       OccursIgnoringCase(args.resume_text, kws[i])}
            n    == Len(kws)
            t    == ret.keyword_match_score
        IN  /\ n = 0 => t = 0
            /\ n > 0 => /\ 2 * (t * n - 1000 * Cardinality(hits)) <= n
                        /\ 2 * (1000 * Cardinality(hits) - t * n) <= n
            /\ \A i \in 1..n :
                 (kws[i] \in Elements(ret.matched_keywords))
                    # (kws[i] \in Elements(ret.missing_keywords))
            /\ Len(ret.matched_keywords) + Len(ret.missing_keywords) = n
            /\ \A i \in 1..n :
                 kws[i] \in Elements(ret.matched_keywords) <=> i \in hits

\* two of three keywords found, the first only through case folding:
\* 66.7 percent
C13_Witness ==
    /\ fn = "calculate_keyword_match"
    /\ args.resume_text = <<"A", "b">>
    /\ args.keywords = <<<<"a">>, <<"A", "b">>, <<"b", "b">>>>
    /\ ret.keyword_match_score = 667
    /\ ret.missing_keywords = <<<<"b", "b">>>>

\* ------------------------------------------------------------------------
\* The scores in the result of compare_resume_to_job
\* ------------------------------------------------------------------------
MaxEntries == 2

\* matches / gaps of 0..MaxEntries entries
EntryLists == UNION {[1..n -> {Rec("a", NoPriority)}] : n \in 0..MaxEntries}

ScorePayloads ==
    Merge(Objects({"matches", "gaps"}, {JList(l) : l \in EntryLists}),
          Merge(Objects({"match_score"},
                        {JNum("0"), JNum("3"), JNum("50"), JNum("100")}),
                Objects({"section_scores"}, {JObj})))

InitScore ==
    /\ PipeIdle /\ ConcIdle /\ EditIdle /\ AppIdle
    /\ fn = "none"
    /\ args \in ScorePayloads
    /\ ret = << >>

\* compare_resume_to_job from the response on: the backend raises, answers
\* prose, or answers with the object, bare or fenced
score_compare ==
    /\ fn = "none"
    /\ \E resp \in {RaiseResponse,
                    [kind |-> "text", text |-> ScenarioC, members |-> EmptyObj],
                    [kind |-> "text", text |-> PlainResponse, members |-> args],
                    [kind |-> "text", text |-> FencedResponse, members |-> args]} :
         LET a == compare_body(resp)
         IN  /\ fn' = "compare_resume_to_job"
             /\ ret' = [st |-> a.st,
                        val |-> IF a.st = "ok" THEN a.val
                                ELSE basic_comparison_result]
    /\ UNCHANGED <<appVars, pipeVars, concVars, editVars, args>>

NextScore == score_compare

SpecScore == InitScore /\ [][NextScore]_vars

\* the JSON number for matched / total * 100 rounded to one decimal, 0 when
\* total is 0
PercentNum(matched, total) ==
    LET t == IF total = 0 THEN 0 ELSE RoundedPercent(matched, total)
    IN  IF t % 10 = 0 THEN JNum(ToString(t \div 10))
        ELSE JNum(ToString(t \div 10) \o "." \o ToString(t % 10))

\* C14 as stated: match_score in the result of compare_resume_to_job is
\* the number of matches over matches plus gaps, times 100, rounded to one
\* decimal, and 0 when there are no requirements.
C14_ScoreComputedFromMatches ==
    fn = "compare_resume_to_job" =>
        ret.val["match_score"] =
            PercentNum(Len(ret.val["matches"].l),
                       Len(ret.val["matches"].l) + Len(ret.val["gaps"].l))

\* C14 amended: match_score and section_scores in the result are the
\* values the backend's object carried under those keys, whatever its
\* matches and gaps; a missing key gets the zero default, and a failed
\* attempt returns the basic result with score 0.
C14_ScorePassedThrough ==
    fn = "compare_resume_to_job" =>
        IF ret.st = "ok"
        THEN \A key \in {"match_score", "section_scores"} :
               /\ key \in DOMAIN ret.val
               /\ ret.val[key] = IF key \in DOMAIN args THEN args[key]
                                 ELSE basic_comparison_result[key]
        ELSE ret.val = basic_comparison_result

\* one match and no gap, and the result carries the backend's score 3
C14_Witness ==
    /\ fn = "compare_resume_to_job" /\ ret.st = "ok"
    /\ Len(ret.val["matches"].l) = 1 /\ ret.val["gaps"].l = << >>
    /\ "gaps" \in DOMAIN args
    /\ ret.val["match_score"] = JNum("3")

\* ------------------------------------------------------------------------
\* The response cleaners on their own
\* ------------------------------------------------------------------------
MaxSegs == 4

MaxValueSegs == 3

\* _preprocess_llm_response, the two _fallback_parse, compare_resume_to_job
\* and generate_recommendations
Cleaners ==
    {"preprocess", "resume_fallback", "job_fallback", "matcher", "generator"}

\* JobAnalyzer._fallback_parse has no reasoning-block step
RemovesThink(cleaner) == cleaner # "job_fallback"

\* the parser and the analyzer split at fence markers, the matcher and the
\* generator look at the two ends of the text
SplitsAtFences(cleaner) ==
    cleaner \in {"preprocess", "resume_fallback", "job_fallback"}

NotParsed == [attempted |-> FALSE, text |-> EmptyText]

\* the stages of one cleaner on one response: the text after strip(),
\* after the reasoning-block step, the text the brace scan looks at, and
\* the text that goes to the JSON parser
clean(cleaner, raw) ==
    LET stripped  == Strip(raw)
        dethought == IF RemovesThink(cleaner) THEN RemoveThink(stripped)
                     ELSE stripped
        scanned   == IF SplitsAtFences(cleaner) THEN ExtractFence(dethought)
                     ELSE StripFenceEnds(dethought)
    IN  [stripped |-> stripped, dethought |-> dethought, scanned |-> scanned,
         parsed |->
            IF cleaner = "preprocess"
            THEN [attempted |-> TRUE, text |-> preprocess_llm_response(raw)]
            ELSE IF HasJsonSpan(scanned)
            THEN [attempted |-> TRUE, text |-> json_str(scanned)]
            ELSE NotParsed]

RECURSIVE Concat(_)
\* the segments of a sequence joined into one text
Concat(segs) == IF segs = << >> THEN << >> ELSE segs[1] \o Concat(Tail(segs))

\* what responses are made of
Segments ==
    {ThinkOpen, ThinkClose, Fence, FenceJson, Body, LBrace, RBrace,
     <<"p">>, <<" ">>}

CleanerInputs == {Concat(q) : q \in UNION {[1..n -> Segments] : n \in 0..MaxSegs}}

Quote == "\""

\* an object up to the opening quote of its last string value, and from
\* the closing quote on
ObjectOpen == <<"{", "@", Quote>>

ObjectClose == <<Quote, "}">>

ValueSegments ==
    {ThinkOpen, ThinkClose, Fence, FenceJson, LBrace, RBrace, <<"p">>, <<" ">>}

\* texts that are exactly one JSON object
CleanObjects ==
    {Body, <<"{", "}">>}
    \cup {ObjectOpen \o Concat(q) \o ObjectClose :
            q \in UNION {[1..n -> ValueSegments] : n \in 0..MaxValueSegs}}

InitClean ==
    /\ PipeIdle /\ ConcIdle /\ EditIdle /\ AppIdle
    /\ fn = "none"
    /\ args \in CleanerInputs
    /\ ret = << >>

InitCleanObject ==
    /\ PipeIdle /\ ConcIdle /\ EditIdle /\ AppIdle
    /\ fn = "none"
    /\ args \in CleanObjects
    /\ ret = << >>

\* one cleaner runs on the response
clean_response ==
    /\ fn = "none"
    /\ \E cleaner \in Cleaners :
         /\ fn' = cleaner
         /\ ret' = clean(cleaner, args)
    /\ UNCHANGED <<appVars, pipeVars, concVars, editVars, args>>

NextClean == clean_response

SpecClean == InitClean /\ [][NextClean]_vars

SpecCleanObject == InitCleanObject /\ [][NextClean]_vars

\* the characters between the quotes of a string literal: no quote (there
\* are no escapes in these texts) and no line break
IsStringBody(s) == \A i \in 1..Len(s) : s[i] \notin {Quote, "\n"}

\* s is "{" members "}", or "{" members and one string literal "}"
ParsesAsObject(s) ==
    \/ JsonLoads(s, EmptyObj).ok
    \/ /\ Len(s) >= Len(ObjectOpen) + Len(ObjectClose)
       /\ StartsWith(s, ObjectOpen)
       /\ EndsWith(s, ObjectClose)
       /\ IsStringBody(Slice(s, Len(ObjectOpen), Len(s) - Len(ObjectClose)))

\* C15: a response that is already exactly one JSON object, string values
\* holding fences, reasoning markers or braces included, comes out of every
\* cleaner unchanged and is what the JSON parser gets.
C15_CleanObjectUnchanged ==
    (fn # "none" /\ ParsesAsObject(args)) =>
        /\ ret.parsed.attempted
        /\ ret.parsed.text = args

\* 0-based offsets at which sub occurs in s
Offsets(s, sub) == {i \in 0..(Len(s) - Len(sub)) : MatchAt(s, sub, i)}

Least(S) == CHOOSE i \in S : \A j \in S : i <= j

IsInk(c) == c \notin Whitespace

\* s without its whitespace
Ink(s) == SelectSeq(s, IsInk)

\* C16: in every cleaner the reasoning-block step deletes the span from
\* the first opening marker through the first closing marker after it and
\* nothing else but whitespace; without an opening marker, or without a
\* closing marker after the first opening marker, it leaves the text as it
\* is.
C16_ThinkSpanRemoved ==
    fn # "none" =>
        LET s      == ret.stripped
            opens  == Offsets(s, ThinkOpen)
            closes == IF opens = {} THEN {}
                      ELSE {j \in Offsets(s, ThinkClose) : j > Least(opens)}
        IN  IF closes = {} THEN ret.dethought = s
            ELSE Ink(ret.dethought)
                   = Ink(Slice(s, 0, Least(opens))
                         \o SliceFrom(s, Least(closes) + Len(ThinkClose)))

\* what stands between the first occurrence of marker in s and the next
\* fence marker behind it (the end of s when there is none)
FenceContent(s, marker) ==
    LET from == Least(Offsets(s, marker)) + Len(marker)
        ends == {j \in Offsets(s, Fence) : j >= from}
    IN  Slice(s, from, IF ends = {} THEN Len(s) ELSE Least(ends))

\* the content of the first json fence of s, else of its first fence, else
\* s itself
ChosenFence(s) ==
    IF Offsets(s, FenceJson) # {} THEN FenceContent(s, FenceJson)
    ELSE IF Offsets(s, Fence) # {} THEN FenceContent(s, Fence)
    ELSE s

\* C17 as stated: in every cleaner the brace scan sees only the content of
\* the first json fence, else of the first fence, wherever in the text the
\* fence stands.
C17_OnlyFenceContentScanned ==
    fn # "none" => ret.scanned = ChosenFence(ret.dethought)

\* C17 amended: the resume parser's cleaners and the job analyzer's
\* fallback scan only the content of the first json fence, else of the
\* first fence; the matcher and the generator remove a fence marker only at
\* the very start and the very end of the text, so behind leading prose the
\* whole text up to a trailing marker is scanned, and only a text that is
\* one fence from start to end is reduced to the fence content.
C17_FenceContentOnlyWhereSplit ==
    /\ fn \in {"preprocess", "resume_fallback", "job_fallback"} =>
         ret.scanned = ChosenFence(ret.dethought)
    /\ fn \in {"matcher", "generator"} =>
         LET d == ret.dethought
         IN  /\ ~StartsWith(d, Fence) =>
                  ret.scanned = IF EndsWith(d, Fence)
                                THEN Strip(Slice(d, 0, Len(d) - Len(Fence)))
                                ELSE d
             /\ ( /\ StartsWith(d, Fence)
                  /\ EndsWith(d, Fence)
                  /\ Cardinality(Offsets(d, Fence)) = 2 ) =>
                  ret.scanned = Strip(ChosenFence(d))

\* the matcher on prose followed by a json fence: the prose and the fence
\* marker are part of the text the brace scan sees
C17_Witness ==
    /\ fn = "matcher"
    /\ args = <<"p">> \o FenceJson \o Body \o Fence
    /\ ret.scanned = <<"p">> \o FenceJson \o Body

Greatest(S) == CHOOSE i \in S : \A j \in S : i >= j

\* the first "{" of s stands before its last "}"
BracesInOrder(s) ==
    /\ Offsets(s, LBrace) # {}
    /\ Offsets(s, RBrace) # {}
    /\ Least(Offsets(s, LBrace)) < Greatest(Offsets(s, RBrace))

\* s from its first "{" to its last "}" inclusive
BraceSpan(s) ==
    Slice(s, Least(Offsets(s, LBrace)), Greatest(Offsets(s, RBrace)) + 1)

\* C18 as stated: the JSON parser gets exactly the text from the first "{"
\* to the last "}" when the first "{" precedes the last "}", and in every
\* other case no parse is attempted.
C18_SpanOrNoParse ==
    fn # "none" =>
        IF BracesInOrder(ret.scanned)
        THEN ret.parsed = [attempted |-> TRUE, text |-> BraceSpan(ret.scanned)]
        ELSE ~ret.parsed.attempted

\* C18 amended: as stated in the two fallbacks, the matcher and the
\* generator; _preprocess_llm_response returns the span when there is one
\* and otherwise the whole stripped text, and identify_sections hands
\* either to the output parser.
C18_SpanOrNoParseExceptPreprocess ==
    fn # "none" =>
        IF BracesInOrder(ret.scanned)
        THEN ret.parsed = [attempted |-> TRUE, text |-> BraceSpan(ret.scanned)]
        ELSE IF fn = "preprocess"
        THEN ret.parsed = [attempted |-> TRUE, text |-> Strip(ret.scanned)]
        ELSE ~ret.parsed.attempted

\* every "}" before the first "{": the preprocessed text still goes to the
\* output parser
C18_Witness ==
    /\ fn = "preprocess"
    /\ args = <<"}", "p", "{">>
    /\ ret.parsed = [attempted |-> TRUE, text |-> args]

\* ------------------------------------------------------------------------
\* EditableResume and EditableResumeSection
\* ------------------------------------------------------------------------
MaxHistory == 2

MaxClock == 1

SectionNames == {"Skills", "Experience"}

Contents == {"Python, Django", "Python, Django, Flask"}

NoCss == "none"

\* datetime.isoformat() and datetime.fromisoformat()
isoformat(t) == <<"iso", t>>

fromisoformat(text) == text[2]

\* str(change_record): the text of the dict, keys and values in order
str_record(change_record) ==
    <<"timestamp", change_record.timestamp,
      "previous", change_record.previous,
      "current", change_record.current>>

\* eval(entry): the dict that the text of a history entry denotes
eval_record(entry) ==
    [timestamp |-> entry[2], previous |-> entry[4], current |-> entry[6]]

\* EditableResumeSection(content=..., original_content=...) at time t
EditableResumeSection(content, original_content, t) ==
    [content |-> content, original_content |-> original_content,
     css_class |-> NoCss, last_edited |-> t, edit_history |-> << >>]

NoSection ==
    [content |-> "", original_content |-> "", css_class |-> NoCss,
     last_edited |-> 0, edit_history |-> << >>]

NoReturn == [version |-> -1, content |-> ""]

\* the record of the last operation
Op(kind, name, arg, version, e, r) ==
    [kind |-> kind, name |-> name, arg |-> arg, version |-> version,
     exc |-> e, ret |-> r,
     existed |-> name \in DOMAIN sections,
     before |-> IF name \in DOMAIN sections THEN sections[name]
                ELSE NoSection]

\* the values datetime.now() can return next
Now == clock..Min(clock + 1, MaxClock)

InitEdit ==
    /\ PipeIdle /\ ConcIdle /\ FnIdle /\ AppIdle
    /\ sections = [n \in {} |-> NoSection]
    /\ changes = [n \in {} |-> << >>]
    /\ clock = 0
    /\ op = [kind |-> "none", name |-> "", arg |-> "", version |-> -1,
             exc |-> "none", ret |-> NoReturn, existed |-> FALSE,
             before |-> NoSection]

\* EditableResume.add_section(name, content, css_class); a section is built
\* at one reading of the clock (the default of last_edited)
add_section(name, content, css_class) ==
    /\ \E t \in Now :
         /\ clock' = t
         /\ IF name \notin DOMAIN sections
            THEN /\ sections' =
                       (name :> [EditableResumeSection(content, content, t)
                                   EXCEPT !.css_class =
                                       IF css_class \notin {NoCss, ""}
                                       THEN css_class ELSE @])
                       @@ sections
                 /\ changes' = (name :> << >>) @@ changes
            ELSE UNCHANGED <<sections, changes>>
    /\ op' = Op("add_section", name, content, -1, "none", NoReturn)
    /\ UNCHANGED <<appVars, pipeVars, concVars, fnVars>>

\* EditableResume.remove_section(name)
remove_section(name) ==
    /\ sections' = [n \in DOMAIN sections \ {name} |-> sections[n]]
    /\ changes' = [n \in DOMAIN changes \ {name} |-> changes[n]]
    /\ op' = Op("remove_section", name, "", -1, "none",
                [version |-> -1,
                 content |-> IF name \in DOMAIN sections
                             THEN sections[name].content ELSE ""])
    /\ UNCHANGED <<appVars, pipeVars, concVars, fnVars, clock>>

\* a section that records a change even when the content is the same
apply_change_unconditional(name, new_content) ==
    /\ name \in DOMAIN sections
    /\ Len(sections[name].edit_history) < MaxHistory
    /\ \E t1 \in Now :
         \E t2 \in t1..Min(t1 + 1, MaxClock) :
           LET change_record == [timestamp |-> isoformat(t1),
                                 previous |-> sections[name].content,
                                 current |-> new_content]
           IN  /\ sections' =
                     [sections EXCEPT
                        ![name].edit_history =
                            Append(@, str_record(change_record)),
                        ![name].content = new_content,
                        ![name].last_edited = t2]
               /\ changes' = [changes EXCEPT
                                ![name] = Append(@, new_content)]
               /\ clock' = t2
    /\ op' = Op("apply_change", name, new_content, -1, "none", NoReturn)
    /\ UNCHANGED <<appVars, pipeVars, concVars, fnVars>>

\* EditableResumeSection.apply_change(new_content) on section name
apply_change(name, new_content) ==
    /\ name \in DOMAIN sections
    /\ Len(sections[name].edit_history) < MaxHistory
    /\ IF sections[name].content # new_content
       THEN \E t1 \in Now :
              \E t2 \in t1..Min(t1 + 1, MaxClock) :
                LET change_record == [timestamp |-> isoformat(t1),
                                      previous |-> sections[name].content,
                                      current |-> new_content]
                IN  /\ sections' =
                          [sections EXCEPT
                             ![name].edit_history =
                                 Append(@, str_record(change_record)),
                             ![name].content = new_content,
                             ![name].last_edited = t2]
                    /\ changes' = [changes EXCEPT
                                     ![name] = Append(@, new_content)]
                    /\ clock' = t2
       ELSE UNCHANGED <<sections, changes, clock>>
    /\ op' = Op("apply_change", name, new_content, -1, "none", NoReturn)
    /\ UNCHANGED <<appVars, pipeVars, concVars, fnVars>>

\* a revert that restores what the entry records as "previous"
revert_to_previous(name, version) ==
    /\ name \in DOMAIN sections
    /\ IF 0 <= version /\ version < Len(sections[name].edit_history)
       THEN LET change_record ==
                    eval_record(sections[name].edit_history[version + 1])
            IN  /\ sections' =
                      [sections EXCEPT
                         ![name].content = change_record.previous,
                         ![name].last_edited =
                             fromisoformat(change_record.timestamp)]
                /\ op' = Op("revert_to", name, "", version, "none",
                            [version |-> version,
                             content |-> change_record.previous])
       ELSE /\ op' = Op("revert_to", name, "", version, "ValueError",
                        NoReturn)
            /\ UNCHANGED sections
    /\ UNCHANGED <<appVars, pipeVars, concVars, fnVars, clock, changes>>

\* a revert that also drops the entries after the restored one
revert_to_truncating(name, version) ==
    /\ name \in DOMAIN sections
    /\ IF 0 <= version /\ version < Len(sections[name].edit_history)
       THEN LET change_record ==
                    eval_record(sections[name].edit_history[version + 1])
            IN  /\ sections' =
                      [sections EXCEPT
                         ![name].content = change_record.current,
                         ![name].edit_history = SubSeq(@, 1, version + 1),
                         ![name].last_edited =
                             fromisoformat(change_record.timestamp)]
                /\ op' = Op("revert_to", name, "", version, "none",
                            [version |-> version,
                             content |-> change_record.current])
       ELSE /\ op' = Op("revert_to", name, "", version, "ValueError",
                        NoReturn)
            /\ UNCHANGED sections
    /\ UNCHANGED <<appVars, pipeVars, concVars, fnVars, clock, changes>>

\* EditableResumeSection.revert_to(version) on section name; the list index
\* version is position version + 1 of the sequence
revert_to(name, version) ==
    /\ name \in DOMAIN sections
    /\ IF 0 <= version /\ version < Len(sections[name].edit_history)
       THEN LET change_record ==
                    eval_record(sections[name].edit_history[version + 1])
            IN  /\ sections' =
                      [sections EXCEPT
                         ![name].content = change_record.current,
                         ![name].last_edited =
                             fromisoformat(change_record.timestamp)]
                /\ op' = Op("revert_to", name, "", version, "none",
                            [version |-> version,
                             content |-> change_record.current])
       ELSE /\ op' = Op("revert_to", name, "", version, "ValueError",
                        NoReturn)
            /\ UNCHANGED sections
    /\ UNCHANGED <<appVars, pipeVars, concVars, fnVars, clock, changes>>

NextEdit ==
    \/ \E name \in SectionNames, content \in Contents :
         add_section(name, content, NoCss)
    \/ \E name \in SectionNames : remove_section(name)
    \/ \E name \in SectionNames, new_content \in Contents :
         apply_change(name, new_content)
    \/ \E name \in SectionNames, version \in -1..(MaxHistory + 1) :
         revert_to(name, version)

SpecEdit == InitEdit /\ [][NextEdit]_vars

\* C19: apply_change with a content different from the current one appends
\* exactly one history entry, whose "previous" is the content before the
\* call and whose "current" is the new content, and sets the content;
\* with the current content it leaves the section as it was, last_edited
\* included.
C19_ApplyChangeRecordsOnce ==
    op.kind = "apply_change" =>
        LET section == sections[op.name]
            n       == Len(op.before.edit_history)
        IN  IF op.arg # op.before.content
            THEN /\ Len(section.edit_history) = n + 1
                 /\ SubSeq(section.edit_history, 1, n) = op.before.edit_history
                 /\ eval_record(section.edit_history[n + 1]).previous
                      = op.before.content
                 /\ eval_record(section.edit_history[n + 1]).current = op.arg
                 /\ section.content = op.arg
            ELSE section = op.before

\* the second change of a section has just been recorded
C19_Witness ==
    /\ op.kind = "apply_change"
    /\ op.arg # op.before.content
    /\ Len(op.before.edit_history) = 1
    /\ Len(sections[op.name].edit_history) = 2
    /\ sections[op.name].content = op.arg

\* C20: revert_to(v) with 0 <= v < len(edit_history) sets the content to
\* the "current" of entry v, which is the content right after change v + 1,
\* and keeps the history; any other v raises ValueError and leaves content
\* and history as they were.
C20_RevertRestoresRecorded ==
    op.kind = "revert_to" =>
        LET section == sections[op.name]
            v       == op.version
        IN  /\ section.edit_history = op.before.edit_history
            /\ IF 0 <= v /\ v < Len(op.before.edit_history)
               THEN /\ op.exc = "none"
                    /\ section.content
                         = eval_record(op.before.edit_history[v + 1]).current
                    /\ section.content = changes[op.name][v + 1]
               ELSE /\ op.exc = "ValueError"
                    /\ section.content = op.before.content

\* after two changes the section went back to the content of the first
C20_Witness ==
    /\ op.kind = "revert_to" /\ op.exc = "none"
    /\ op.version = 0
    /\ Len(sections[op.name].edit_history) = 2
    /\ sections[op.name].content # op.before.content

\* ------------------------------------------------------------------------
\* EditableResume._apply_to_section: the content a recommendation gives
\* ------------------------------------------------------------------------
MaxContentLen == 3

MaxRecLen == 1

Newline == <<"\n">>

\* s.replace(old, new) for a non-empty old: the occurrences are taken from
\* the left and do not overlap
RECURSIVE Replace(_, _, _)
Replace(s, old, new) ==
    LET i == Find(s, old)
    IN  IF i < 0 THEN s
        ELSE Slice(s, 0, i) \o new
               \o Replace(SliceFrom(s, i + Len(old)), old, new)

\* s.split(sep) for a non-empty sep
RECURSIVE Split(_, _)
Split(s, sep) ==
    LET i == Find(s, sep)
    IN  IF i < 0 THEN <<s>>
        ELSE <<Slice(s, 0, i)>> \o Split(SliceFrom(s, i + Len(sep)), sep)

\* sep.join(parts)
RECURSIVE Join(_, _)
Join(parts, sep) ==
    IF parts = << >> THEN << >>
    ELSE IF Len(parts) = 1 THEN parts[1]
    ELSE parts[1] \o sep \o Join(Tail(parts), sep)

\* f"- {content}"
Bullet(content) == <<"-", " ">> \o content

RecTypes == {"add", "modify", "emphasize", "remove", "other"}

\* an "add" that appends the bullet whether or not it is there already
apply_to_section_add_always(current_content, rec_type, content) ==
    CASE rec_type = "add" -> current_content \o Newline \o Bullet(content)
      [] rec_type \in {"modify", "emphasize"} ->
           LET lines == Split(current_content, Newline)
           IN  IF StartsWith(lines[1], <<"-">>)
               THEN Join(<<Bullet(content) \o <<" ", "(">>
                             \o SliceFrom(lines[1], 2) \o <<")">>>>
                         \o Tail(lines), Newline)
               ELSE Join(<<Bullet(content)>> \o lines, Newline)
      [] rec_type = "remove" ->
           IF Contains(current_content, Bullet(content))
           THEN Replace(current_content, Newline \o Bullet(content), << >>)
           ELSE current_content
      [] OTHER -> current_content

\* EditableResume._apply_to_section(current_content, recommendation) with
\* recommendation = {"type": rec_type, "content": content}
apply_to_section(current_content, rec_type, content) ==
    CASE rec_type = "add" ->
           IF ~Contains(current_content, Bullet(content))
           THEN current_content \o Newline \o Bullet(content)
           ELSE current_content
      [] rec_type \in {"modify", "emphasize"} ->
           LET lines == Split(current_content, Newline)
           IN  IF StartsWith(lines[1], <<"-">>)
               THEN Join(<<Bullet(content) \o <<" ", "(">>
                             \o SliceFrom(lines[1], 2) \o <<")">>>>
                         \o Tail(lines), Newline)
               ELSE Join(<<Bullet(content)>> \o lines, Newline)
      [] rec_type = "remove" ->
           IF Contains(current_content, Bullet(content))
           THEN Replace(current_content, Newline \o Bullet(content), << >>)
           ELSE current_content
      [] OTHER -> current_content

\* the characters of section contents and recommendation contents
ContentChars == {"\n", "-", " ", "a"}

RECURSIVE TextsUpTo(_, _)
TextsUpTo(chars, n) ==
    IF n = 0 THEN {<< >>}
    ELSE LET shorter == TextsUpTo(chars, n - 1)
         IN  shorter \cup {Append(t, c) : t \in shorter, c \in chars}

SectionContents == TextsUpTo(ContentChars, MaxContentLen)

RecContents == TextsUpTo(ContentChars, MaxRecLen)

\* one recommendation, or an "add" followed by a second recommendation
\* with the same content
RecTypeSeqs == {<<t>> : t \in RecTypes} \cup {<<"add", t>> : t \in RecTypes}

\* the contents of a section after each recommendation of a sequence
RECURSIVE ContentsAfter(_, _, _)
ContentsAfter(current_content, types, content) ==
    IF types = << >> THEN << >>
    ELSE LET new_content ==
                 apply_to_section(current_content, types[1], content)
         IN  <<new_content>> \o ContentsAfter(new_content, Tail(types), content)

InitApply ==
    /\ PipeIdle /\ ConcIdle /\ EditIdle /\ AppIdle
    /\ fn = "none"
    /\ args \in [current_content : SectionContents, content : RecContents,
                 types : RecTypeSeqs]
    /\ ret = << >>

\* the recommendations of args.types applied in turn to a section that
\* holds args.current_content
apply_recommendations ==
    /\ fn = "none"
    /\ fn' = "apply_to_section"
    /\ ret' = ContentsAfter(args.current_content, args.types, args.content)
    /\ UNCHANGED <<appVars, pipeVars, concVars, editVars, args>>

NextApply == apply_recommendations

SpecApply == InitApply /\ [][NextApply]_vars

\* the lines of a text that are not the bullet of content
OtherLines(text, content) ==
    SelectSeq(Split(text, Newline), LAMBDA line : line # Bullet(content))

\* C22: after a "remove" recommendation with content X on an existing
\* section, no line of the content is "- X" and the lines other than the
\* "- X" bullets are the ones the section had, in the same order.
C22_RemoveTakesBulletLines ==
    (fn = "apply_to_section" /\ args.types = <<"remove">>) =>
        /\ \A i \in 1..Len(Split(ret[1], Newline)) :
              Split(ret[1], Newline)[i] # Bullet(args.content)
        /\ OtherLines(ret[1], args.content)
             = OtherLines(args.current_content, args.content)

\* C26: on a section whose content c has no "- X", the recommendation
\* {add, X} followed by {remove, X} leaves the content equal to c.
C26_AddThenRemoveRestores ==
    (/\ fn = "apply_to_section"
     /\ args.types = <<"add", "remove">>
     /\ ~Contains(args.current_content, Bullet(args.content))) =>
        ret[2] = args.current_content

\* ------------------------------------------------------------------------
\* EditableResume: recommendations, markdown edits and serialization
\* ------------------------------------------------------------------------
MaxEdits == 3

\* the number of recorded changes in the sections names of a resume
RECURSIVE EditsIn(_, _)
EditsIn(resume, names) ==
    IF names = {} THEN 0
    ELSE LET n == CHOOSE n \in names : TRUE
         IN  Len(resume[n].edit_history) + EditsIn(resume, names \ {n})

\* the resume has room for one more recorded change
RoomForEdit == EditsIn(sections, DOMAIN sections) < MaxEdits

UpperChar(c) == IF c = "a" THEN "A" ELSE IF c = "b" THEN "B" ELSE c

IsLetter(c) == c \in {"a", "A", "b", "B"}

\* s.title(): a letter that starts a word is upper case, the others lower
title(s) ==
    [i \in 1..Len(s) |->
        IF i = 1 \/ ~IsLetter(s[i - 1]) THEN UpperChar(s[i])
        ELSE LowerChar(s[i])]

\* EditableResume._map_section_name(recommendation_section); the mapping
\* table sends each of its keys to itself
map_section_name(recommendation_section) ==
    title([i \in 1..Len(recommendation_section) |->
             IF recommendation_section[i] = "_" THEN " "
             ELSE recommendation_section[i]])

\* MarkdownConverter.markdown_to_html on one line of plain text
markdown_to_html(markdown_content) ==
    IF markdown_content = << >> THEN << >>
    ELSE <<"<p>">> \o markdown_content \o <<"</p>", "\n">>

\* the section after section.apply_change(new_content), the clock read as
\* t1 for the record and t2 for last_edited
Changed(section, new_content, t1, t2) ==
    IF section.content # new_content
    THEN [section EXCEPT
            !.edit_history =
                Append(@, str_record([timestamp |-> isoformat(t1),
                                      previous |-> section.content,
                                      current |-> new_content])),
            !.content = new_content,
            !.last_edited = t2]
    ELSE section

\* self.sections[name].apply_change(new_content) inside another method
ApplyChange(name, new_content) ==
    IF sections[name].content # new_content
    THEN \E t1 \in Now :
           \E t2 \in t1..Min(t1 + 1, MaxClock) :
             /\ sections' = [sections EXCEPT
                               ![name] = Changed(@, new_content, t1, t2)]
             /\ changes' = [changes EXCEPT ![name] = Append(@, new_content)]
             /\ clock' = t2
    ELSE UNCHANGED <<sections, changes, clock>>

\* the record of a call of apply_recommendation, from_markdown or
\* from_dict: the whole resume before the call, and whether the call
\* before it was the same one
ResumeOp(kind, name, arg) ==
    [kind |-> kind, name |-> name, arg |-> arg, version |-> -1,
     exc |-> "none", ret |-> NoReturn,
     existed |-> name \in DOMAIN sections,
     before |-> IF name \in DOMAIN sections THEN sections[name]
                ELSE NoSection,
     resume |-> sections,
     repeated |-> op.kind = kind /\ op.arg = arg]

\* EditableResume.apply_recommendation(recommendation), the recommendation
\* holding the keys "section", "type" and "content"
apply_recommendation(recommendation) ==
    LET section_name == map_section_name(recommendation.section)
    IN  /\ IF section_name \notin DOMAIN sections
           THEN \E t \in Now :
                  /\ clock' = t
                  /\ sections' =
                        (section_name :>
                           EditableResumeSection(Bullet(recommendation.content),
                                                 Bullet(recommendation.content),
                                                 t))
                        @@ sections
                  /\ changes' = (section_name :> << >>) @@ changes
           ELSE /\ RoomForEdit
                /\ ApplyChange(section_name,
                               apply_to_section(sections[section_name].content,
                                                recommendation.type,
                                                recommendation.content))
        /\ op' = ResumeOp("apply_recommendation", section_name, recommendation)
        /\ UNCHANGED <<appVars, pipeVars, concVars, fnVars>>

\* EditableResumeSection.from_markdown(markdown_content) on section name
from_markdown(name, markdown_content) ==
    /\ name \in DOMAIN sections
    /\ RoomForEdit
    /\ IF markdown_content = << >>
       THEN UNCHANGED <<sections, changes, clock>>
       ELSE ApplyChange(name, markdown_to_html(markdown_content))
    /\ op' = ResumeOp("from_markdown", name, markdown_content)
    /\ UNCHANGED <<appVars, pipeVars, concVars, fnVars>>

\* EditableResume.to_dict(): the "sections" entry of the dictionary
to_dict(resume) ==
    [n \in DOMAIN resume |->
        [content |-> resume[n].content,
         original_content |-> resume[n].original_content,
         last_edited |-> isoformat(resume[n].last_edited),
         edit_history |-> resume[n].edit_history]]

\* EditableResume.from_dict(data): the sections of the resume it builds
from_dict(saved) ==
    [n \in DOMAIN saved |->
        [content |-> saved[n].content,
         original_content |-> saved[n].original_content,
         css_class |-> NoCss,
         last_edited |-> fromisoformat(saved[n].last_edited),
         edit_history |-> saved[n].edit_history]]

\* the resume is saved with to_dict and the editor goes on with the resume
\* that from_dict builds from the saved dictionary
reload ==
    /\ op.kind # "from_dict"
    /\ sections' = from_dict(to_dict(sections))
    /\ op' = ResumeOp("from_dict", << >>, "")
    /\ UNCHANGED <<appVars, pipeVars, concVars, fnVars, clock, changes>>

\* the names under which sections are added and edited directly; the
\* recommendations also reach the section "B A"
ResumeNames == {<<"A">>}

RecSections == {<<"a">>, <<"b", "_", "a">>}

StartContents == {<<"a">>, <<"-", " ", "a">>}

RecBodies == {<<"a">>}

Recommendations ==
    [section : RecSections, type : RecTypes, content : RecBodies]

CssClasses == {NoCss, "resume-skills"}

Markdowns == {<< >>, <<"a">>}

InitResume ==
    /\ PipeIdle /\ ConcIdle /\ FnIdle /\ AppIdle
    /\ sections = [n \in {} |-> NoSection]
    /\ changes = [n \in {} |-> << >>]
    /\ clock = MaxClock
    /\ op = [kind |-> "none", name |-> << >>, arg |-> "", version |-> -1,
             exc |-> "none", ret |-> NoReturn, existed |-> FALSE,
             before |-> NoSection]

NextResume ==
    \/ \E name \in ResumeNames, content \in StartContents,
          css_class \in CssClasses :
         name \notin DOMAIN sections /\ add_section(name, content, css_class)
    \/ \E name \in ResumeNames, new_content \in StartContents :
         RoomForEdit /\ apply_change(name, new_content)
    \/ \E recommendation \in Recommendations :
         apply_recommendation(recommendation)
    \/ \E name \in ResumeNames, markdown_content \in Markdowns :
         from_markdown(name, markdown_content)
    \/ \E name \in ResumeNames, version \in -1..MaxEdits :
         revert_to(name, version)
    \/ reload

SpecResume == InitResume /\ [][NextResume]_vars

\* C21: an "add" recommendation applied right after the same
\* recommendation leaves the resume as the first application left it: the
\* same sections, contents, histories and times, so "- X" is not added a
\* second time.
C21_AddIdempotent ==
    (/\ op.kind = "apply_recommendation"
     /\ op.arg.type = "add"
     /\ op.repeated) =>
        sections = op.resume

\* the first application appended the bullet to an existing section and
\* recorded it; the second has just run
C21_Witness ==
    /\ op.kind = "apply_recommendation"
    /\ op.arg.type = "add"
    /\ op.repeated
    /\ op.name = <<"A">>
    /\ sections[op.name].content = <<"a", "\n", "-", " ", "a">>
    /\ Len(sections[op.name].edit_history) = 1

\* the "previous" of the first entry is the original content and the
\* "previous" of every later entry is the "current" of the entry before
IsChain(section) ==
    \A i \in 1..Len(section.edit_history) :
        eval_record(section.edit_history[i]).previous
          = IF i = 1 THEN section.original_content
            ELSE eval_record(section.edit_history[i - 1]).current

\* C23: after any sequence of apply_change, from_markdown,
\* apply_recommendation and revert_to, the edit history of every section
\* is a chain from its original content.
C23_HistoryIsChain == \A n \in DOMAIN sections : IsChain(sections[n])

\* the content that the history of a section accounts for
RecordedContent(section) ==
    IF section.edit_history = << >> THEN section.original_content
    ELSE eval_record(section.edit_history[Len(section.edit_history)]).current

\* C24: after any sequence of editor operations the content of every
\* section is the "current" of its last history entry, or its original
\* content when the history is empty.
C24_ContentIsLastRecorded ==
    \A n \in DOMAIN sections :
        sections[n].content = RecordedContent(sections[n])

IsPrefix(s, t) == Len(s) <= Len(t) /\ SubSeq(t, 1, Len(s)) = s

\* C25: no step of apply_change, from_markdown, apply_recommendation or
\* revert_to removes, reorders or rewrites an entry of a section's edit
\* history, and none changes a section's original_content: the history
\* before the step is a prefix of the history after it.
C25_PastIsImmutable ==
    [][\A n \in DOMAIN sections :
          /\ n \in DOMAIN sections'
          /\ IsPrefix(sections[n].edit_history, sections'[n].edit_history)
          /\ sections'[n].original_content = sections[n].original_content]_vars

\* a change has been recorded after a revert: the history holds the two
\* entries from before the revert and the new one
C25_Witness ==
    /\ op.kind = "apply_recommendation"
    /\ op.existed
    /\ op.before.content # RecordedContent(op.before)
    /\ Len(op.before.edit_history) = 2
    /\ Len(sections[op.name].edit_history) = 3

\* C27: a recommendation of a type other than "add" whose section does not
\* exist leaves the resume as it was: no section is created and no content
\* changes.
C27_OnlyAddCreatesSection ==
    (/\ op.kind = "apply_recommendation"
     /\ ~op.existed
     /\ op.arg.type # "add") =>
        sections = op.resume

\* C28: the resume that from_dict builds from to_dict(r) has the section
\* names of r and, for each section, the content, original_content,
\* css_class, last_edited and edit_history of r.
C28_SerializationRoundTrips ==
    op.kind = "from_dict" =>
        /\ DOMAIN sections = DOMAIN op.resume
        /\ \A n \in DOMAIN sections :
              /\ sections[n].content = op.resume[n].content
              /\ sections[n].original_content = op.resume[n].original_content
              /\ sections[n].css_class = op.resume[n].css_class
              /\ sections[n].last_edited = op.resume[n].last_edited
              /\ sections[n].edit_history = op.resume[n].edit_history

\* ------------------------------------------------------------------------
\* The Streamlit session: perform_full_analysis
\* ------------------------------------------------------------------------
\* the runs of perform_full_analysis in one session
MaxRuns == 1

\* st.session_state.resume_data: None, or the parsed resume with its text
NoResume == [kind |-> "falsy", raw_text |-> EmptyText]

SessionResumes == {[kind |-> "dict", raw_text |-> t] : t \in {EmptyText, SomeText}}

\* what one run of perform_full_analysis did: the prompts it sent to the
\* backend, and how generate_recommendations returned
NoRun == [prompts |-> << >>, via |-> "none", att1 |-> "none"]

\* initialize_session_state
NewSession ==
    [job_requirements |-> "falsy", resume_data |-> NoResume,
     comparison_results |-> EmptyObj, recommendations |-> EmptyObj,
     analysis_complete |-> FALSE, pc |-> "idle", run |-> NoRun, runs |-> 0]

\* whether _format_comparison_results can walk the comparison results:
\* "matches" and "gaps" must be iterable and their items mappings
ComparisonKind(comparison_results) ==
    IF \A key \in {"matches", "gaps"} \cap DOMAIN comparison_results :
          LET v == comparison_results[key]
          IN  \/ v.t = "list" /\ \A i \in 1..Len(v.l) : v.l[i].k = "obj"
              \/ v.t = "obj"
              \/ v = JStr("")
    THEN "dict" ELSE "baddict"

InitSession ==
    /\ ConcIdle /\ FnIdle /\ EditIdle /\ PipeIdle
    /\ session = NewSession
    /\ http = << >>

\* show_job_requirements_page: the analyzed requirements are stored;
\* perform_full_analysis is called when a resume is there
show_job_requirements_page ==
    /\ session.pc \in {"idle", "complete"} /\ pc = "idle"
    /\ session.runs < MaxRuns
    /\ session' = [session EXCEPT
                     !.job_requirements = "dict",
                     !.pc = IF session.resume_data.kind # "falsy"
                            THEN "analysis" ELSE "idle"]
    /\ UNCHANGED <<pipeVars, concVars, fnVars, editVars, http>>

\* show_resume_upload_page: the parsed resume is stored;
\* perform_full_analysis is called when job requirements are there
show_resume_upload_page(resume_data) ==
    /\ session.pc \in {"idle", "complete"} /\ pc = "idle"
    /\ session.runs < MaxRuns
    /\ session' = [session EXCEPT
                     !.resume_data = resume_data,
                     !.pc = IF session.job_requirements # "falsy"
                            THEN "analysis" ELSE "idle"]
    /\ UNCHANGED <<pipeVars, concVars, fnVars, editVars, http>>

\* perform_full_analysis up to the call of the matcher
perform_full_analysis ==
    /\ session.pc = "analysis"
    /\ session' = [session EXCEPT
                     !.pc = IF \/ session.job_requirements = "falsy"
                               \/ session.resume_data.kind = "falsy"
                            THEN "idle" ELSE "compare",
                     !.run = NoRun,
                     !.runs = @ + 1]
    /\ UNCHANGED <<pipeVars, concVars, fnVars, editVars, http>>

\* components['matcher'].compare_resume_to_job(resume_data, job_requirements)
session_compare ==
    /\ session.pc = "compare"
    /\ \/ compare_resume_to_job_call(session.resume_data.kind,
                                     session.job_requirements)
       \/ compare_resume_to_job_chain

\* st.session_state.comparison_results = comparison_results
store_comparison_results ==
    /\ session.pc = "compare" /\ pc = "done"
    /\ session' = [session EXCEPT
                     !.comparison_results = IF exc = "none" THEN result ELSE @,
                     !.run.prompts = @ \o prompts,
                     !.pc = IF exc = "none" THEN "generate" ELSE "idle"]
    /\ UNCHANGED <<pipeVars, concVars, fnVars, editVars, http>>

\* components['generator'].generate_recommendations(resume_text, "",
\* comparison_results)
session_generate ==
    /\ session.pc = "generate"
    /\ \/ pipeline = "match" /\ Finish
       \/ generate_recommendations_call(
              session.resume_data.raw_text, EmptyText,
              ComparisonKind(session.comparison_results))
       \/ pipeline = "recommend" /\ generate_recommendations_chain

\* st.session_state.recommendations = recommendations, and
\* st.session_state.analysis_complete = True
store_recommendations ==
    /\ session.pc = "generate" /\ pc = "done" /\ pipeline = "recommend"
    /\ session' = [session EXCEPT
                     !.recommendations = IF exc = "none" THEN result ELSE @,
                     !.analysis_complete = IF exc = "none" THEN TRUE ELSE @,
                     !.run = [prompts |-> @.prompts \o prompts,
                              via |-> via, att1 |-> att1],
                     !.pc = IF exc = "none" THEN "complete" ELSE "idle"]
    /\ UNCHANGED <<pipeVars, concVars, fnVars, editVars, http>>

\* the page is drawn again; the generator's call is over
rerun ==
    /\ session.pc \in {"idle", "complete"} /\ pipeline = "recommend"
    /\ Finish

NextSession ==
    \/ show_job_requirements_page
    \/ \E resume_data \in SessionResumes : show_resume_upload_page(resume_data)
    \/ perform_full_analysis
    \/ session_compare
    \/ store_comparison_results
    \/ session_generate
    \/ store_recommendations
    \/ rerun

SpecSession == InitSession /\ [][NextSession]_vars

\* C29: when perform_full_analysis has set analysis_complete, the
\* generator invoked the backend during that run, and the stored
\* recommendations are the basic fallback only if that invocation or the
\* parsing of its response failed.
C29_RecommendationsFromBackend ==
    session.pc = "complete" =>
        /\ \E i \in 1..Len(session.run.prompts) :
              session.run.prompts[i] = "recommendation_prompt"
        /\ session.recommendations = basic_recommendations
             => session.run.att1 \notin {"none", "ok"}

\* ------------------------------------------------------------------------
\* The FastAPI backend: POST /tailoring and POST /recommendations
\* ------------------------------------------------------------------------
\* model_name of a request; "" stands for the default None
ModelNames == {"", "default", "llama3.1", "mistral", "codellama", "gpt-4"}

Endpoints == {"/tailoring", "/recommendations"}

\* OllamaService.get_model_list(): the same list whether or not the
\* Ollama server answers
get_model_list == {"llama3.1", "mistral", "codellama"}

\* the text the Ollama server generates when it answers
GeneratedTexts == {EmptyText, SomeText}

\* what the Ollama server does with a request: it answers with a text, or
\* the request fails
OllamaOutcomes ==
    {[up |-> FALSE, text |-> EmptyText]}
    \cup {[up |-> TRUE, text |-> t] : t \in GeneratedTexts}

\* OllamaService.tailor_resume(resume_text, job_description, model): the
\* generated text, or on any failure the resume with a note appended
service_tailor_resume(resume_text, model, outcome) ==
    LET used == IF model \in {"", "default"} THEN "llama3.1" ELSE model
    IN  IF outcome.up THEN outcome.text
        ELSE resume_text \o <<"\n", "\n", "Tailored by", used>>

NoRequest ==
    [endpoint |-> "", model_name |-> "", resume_text |-> EmptyText,
     job_description |-> EmptyText, pc |-> "idle",
     status |-> 0, detail |-> "", tailored_resume |-> EmptyText, calls |-> << >>]

InitApi ==
    /\ PipeIdle /\ ConcIdle /\ FnIdle /\ EditIdle
    /\ session = << >>
    /\ http = NoRequest

\* a client posts a request
post(endpoint, model_name, resume_text, job_description) ==
    /\ http.pc \in {"idle", "answered"}
    /\ http' = [NoRequest EXCEPT !.endpoint = endpoint,
                                 !.model_name = model_name,
                                 !.resume_text = resume_text,
                                 !.job_description = job_description,
                                 !.pc = "received"]
    /\ UNCHANGED <<pipeVars, concVars, fnVars, editVars, session>>

\* the try block that the two handlers share: the model check, then the
\* call of the service.  An HTTPException raised inside it is an Exception
\* and reaches the handler's except clause like any other.
handler_try(outcome) ==
    IF http.model_name # "" /\ http.model_name \notin get_model_list
    THEN [raised |-> "HTTPException(400)", calls |-> <<"get_model_list">>,
          tailored_resume |-> EmptyText]
    ELSE [raised |-> "none",
          calls |-> (IF http.model_name # "" THEN <<"get_model_list">>
                     ELSE << >>) \o <<"tailor_resume">>,
          tailored_resume |->
              service_tailor_resume(http.resume_text, http.model_name, outcome)]

\* POST /tailoring
tailor_resume ==
    /\ http.pc = "received" /\ http.endpoint = "/tailoring"
    /\ \E outcome \in OllamaOutcomes :
         LET t == handler_try(outcome)
         IN  http' = [http EXCEPT
                        !.pc = "answered",
                        !.calls = t.calls,
                        !.status = IF t.raised = "none" THEN 200 ELSE 500,
                        !.detail = IF t.raised = "none" THEN ""
                                   ELSE "Failed to tailor resume",
                        !.tailored_resume = t.tailored_resume]
    /\ UNCHANGED <<pipeVars, concVars, fnVars, editVars, session>>

\* POST /recommendations: after the service call the handler builds its
\* answer from the name tailed_resume, which is not defined (NameError)
api_generate_recommendations ==
    /\ http.pc = "received" /\ http.endpoint = "/recommendations"
    /\ \E outcome \in OllamaOutcomes :
         LET t == handler_try(outcome)
         IN  http' = [http EXCEPT
                        !.pc = "answered",
                        !.calls = t.calls,
                        !.status = 500,
                        !.detail = "Failed to generate recommendations",
                        !.tailored_resume = EmptyText]
    /\ UNCHANGED <<pipeVars, concVars, fnVars, editVars, session>>

NextApi ==
    \/ \E endpoint \in Endpoints, model_name \in ModelNames,
          resume_text \in SourceTexts, job_description \in SourceTexts :
         post(endpoint, model_name, resume_text, job_description)
    \/ tailor_resume
    \/ api_generate_recommendations

SpecApi == InitApi /\ [][NextApi]_vars

\* C30: a request whose model_name is not in the list of get_model_list
\* is answered with status 400, and the service's tailor_resume is not
\* called for it.
C30_UnknownModelIs400 ==
    (/\ http.pc = "answered"
     /\ http.model_name # ""
     /\ http.model_name \notin get_model_list) =>
        /\ http.status = 400
        /\ \A i \in 1..Len(http.calls) : http.calls[i] # "tailor_resume"

====
